---- MODULE Spec2Model ----
(***************************************************************************)
(* A model of screen-spots: the profile-scoped spot store of               *)
(* src/screen-spots.py, its pattern matcher and its profile resolver.      *)
(*                                                                         *)
(* Text is a tuple of one-character strings (<<"a","b">> is "ab"), so      *)
(* that lower(), strip(), startswith() and the `in` containment test are   *)
(* computed and not assumed.  A Python dict is a function on the set of   *)
(* its keys; its iteration order, which only decides the order of the rows *)
(* of a CSV file, is fixed to the order of NameOrder.                      *)
(***************************************************************************)
EXTENDS Integers, Sequences, FiniteSets, TLC

\* Python's None, as a text no str value equals (every character of a
\* str is a one-character string)
None == <<"None">>

-----------------------------------------------------------------------------
(* Text primitives (str methods the source relies on) *)

\* the upper-case letters and, at the same position, their lower case
UpperLetters ==
    <<"A", "B", "C", "D", "E", "F", "G", "H", "I", "J", "K", "L", "M", "N", "O", "P", "Q", "R", "S", "T", "U", "V", "W", "X", "Y", "Z">>

LowerLetters ==
    <<"a", "b", "c", "d", "e", "f", "g", "h", "i", "j", "k", "l", "m", "n", "o", "p", "q", "r", "s", "t", "u", "v", "w", "x", "y", "z">>

LowerChar(c) ==
    CASE c = "A" -> "a"
      [] c = "B" -> "b"
      [] c = "X" -> "x"
      [] c = "Z" -> "z"
      [] OTHER -> IF \E i \in 1..Len(UpperLetters) : UpperLetters[i] = c
                  THEN LowerLetters[CHOOSE i \in 1..Len(UpperLetters) : UpperLetters[i] = c]
                  ELSE c

\* str.lower()
lower(s) == [i \in 1..Len(s) |-> LowerChar(s[i])]

\* needle in hay  (substring containment)
Contains(needle, hay) ==
    \E i \in 0..(Len(hay) - Len(needle)) :
        \A j \in 1..Len(needle) : hay[i + j] = needle[j]

\* str.startswith(prefix)
startswith(s, prefix) ==
    /\ Len(s) >= Len(prefix)
    /\ \A j \in 1..Len(prefix) : s[j] = prefix[j]

IsSpace(c) == c \in {" ", "\n", "\t"}

\* str.strip(): drop leading and trailing whitespace
strip(s) ==
    LET keep == {i \in 1..Len(s) : ~IsSpace(s[i])}
    IN  IF keep = {} THEN <<>>
        ELSE LET lo == CHOOSE i \in keep : \A k \in keep : i <= k
                 hi == CHOOSE i \in keep : \A k \in keep : k <= i
             IN  SubSeq(s, lo, hi)

-----------------------------------------------------------------------------
(* Pattern matcher *)

\* The foreground window, as the host reports it: ui.active_window().title
\* and ui.active_window().app.name ("" when there is none).
Window(title, app) == [title |-> title, app |-> app]

\* pattern[4:] compared, case-folded, with the current app name
_matches_app_pattern(pattern, win) ==
    Contains(lower(SubSeq(pattern, 5, Len(pattern))), lower(win.app))

\* Characters re gives a meaning to when they are not escaped.
RegexSpecial ==
    {"(", ")", "?", "*", "+", ".", "[", "]", "{", "}", "|", "^", "$", "\\"}

RegexWordChar == {"a", "b", "x", "z", "A", "B", "X", "Z", "p"}

\* the digits that follow position i
RECURSIVE DigitsAt(_, _)
DigitsAt(p, i) ==
    IF i > Len(p) \/ p[i] \notin {"0", "1", "2", "3", "4", "5", "6", "7", "8", "9"} THEN <<>>
    ELSE <<p[i]>> \o DigitsAt(p, i + 1)

RECURSIVE StripZeros(_)
StripZeros(digits) ==
    IF Len(digits) > 1 /\ digits[1] = "0" THEN StripZeros(Tail(digits)) ELSE digits

\* the digits of MAXREPEAT, the least repetition count sre refuses
MAXREPEAT == <<"4", "2", "9", "4", "9", "6", "7", "2", "9", "5">>

\* the number the digits write is MAXREPEAT or more
RepeatTooLarge(digits) ==
    LET n == StripZeros(digits)
        ord(c) == CHOOSE k \in 0..9 : <<"0", "1", "2", "3", "4", "5", "6", "7", "8", "9">>[k + 1] = c
    IN  \/ Len(n) > Len(MAXREPEAT)
        \/ /\ Len(n) = Len(MAXREPEAT)
           /\ \/ n = MAXREPEAT
              \/ \E i \in 1..Len(n) :
                     /\ ord(n[i]) > ord(MAXREPEAT[i])
                     /\ \A k \in 1..(i - 1) : n[k] = MAXREPEAT[k]

\* The body of one lookahead group, read from position i up to its closing
\* ")": literal characters, a special character only behind a backslash.
\* kind "group": a complete group; "error": the pattern ends inside the
\* group or behind a backslash (re.error); "overflow": a repetition
\* "{n}" with n not below MAXREPEAT (OverflowError, which is no re.error);
\* "other": a construct outside the modelled fragment of the
\* regular-expression language.
RECURSIVE RegexGroupBody(_, _, _)
RegexGroupBody(p, i, acc) ==
    IF i > Len(p) THEN [kind |-> "error", lit |-> acc, next |-> i]
    ELSE IF p[i] = ")" THEN [kind |-> "group", lit |-> acc, next |-> i + 1]
    ELSE IF /\ p[i] = "{"
            /\ acc # <<>>
            /\ DigitsAt(p, i + 1) # <<>>
            /\ i + 1 + Len(DigitsAt(p, i + 1)) <= Len(p)
            /\ p[i + 1 + Len(DigitsAt(p, i + 1))] = "}"
            /\ RepeatTooLarge(DigitsAt(p, i + 1))
         THEN [kind |-> "overflow", lit |-> acc, next |-> i]
    ELSE IF p[i] = "\\"
         THEN IF i + 1 > Len(p) THEN [kind |-> "error", lit |-> acc, next |-> i]
              ELSE IF p[i + 1] \in RegexWordChar
                   THEN [kind |-> "other", lit |-> acc, next |-> i]
                   ELSE RegexGroupBody(p, i + 2, Append(acc, p[i + 1]))
    ELSE IF p[i] \in RegexSpecial THEN [kind |-> "other", lit |-> acc, next |-> i]
    ELSE RegexGroupBody(p, i + 1, Append(acc, p[i]))

\* A pattern read as a sequence of groups "(?=.*" body ")", the form
\* parse_window_title_segments builds (window_title_parser.py:89-90).
RECURSIVE RegexParse(_, _, _)
RegexParse(p, i, lits) ==
    IF i > Len(p) THEN [kind |-> "conj", lits |-> lits]
    ELSE IF ~startswith(SubSeq(p, i, Len(p)), <<"(", "?", "=">>)
         THEN [kind |-> "other", lits |-> lits]
    ELSE IF Len(p) < i + 3 THEN [kind |-> "error", lits |-> lits]
    ELSE IF ~startswith(SubSeq(p, i + 3, Len(p)), <<".", "*">>)
         THEN [kind |-> "other", lits |-> lits]
    ELSE LET g == RegexGroupBody(p, i + 5, <<>>)
         IN  IF g.kind = "group" THEN RegexParse(p, g.next, Append(lits, g.lit))
             ELSE [kind |-> g.kind, lits |-> lits]

\* re.search(conjunction of lookaheads, title, re.IGNORECASE): some start
\* position from which every ".*literal" can be read; "." matches any
\* character but a newline.
RegexSearchConj(lits, title) ==
    \E start \in 0..Len(title) :
        \A k \in 1..Len(lits) :
            \E s \in start..(Len(title) - Len(lits[k])) :
                /\ \A j \in 1..Len(lits[k]) :
                       LowerChar(title[s + j]) = LowerChar(lits[k][j])
                /\ \A j \in (start + 1)..s : title[j] # "\n"

\* Patterns whose regular-expression reading the model covers.
InRegexFragment(pattern) == RegexParse(pattern, 1, <<>>).kind # "other"

\* re.search raises an exception that except re.error does not catch
_matches_regex_pattern_raises(pattern) ==
    RegexParse(pattern, 1, <<>>).kind = "overflow"

_matches_regex_pattern(pattern, title) ==
    LET r == RegexParse(pattern, 1, <<>>)
    IN  IF r.kind = "conj" THEN RegexSearchConj(r.lits, title)
        ELSE Contains(lower(pattern), lower(title))

spot_matches_current_window(spot, win) ==
    LET window_pattern == spot.window_pattern
    IN  IF window_pattern = None THEN TRUE
        ELSE IF startswith(window_pattern, <<"a", "p", "p", ":">>)
             THEN _matches_app_pattern(window_pattern, win)
        ELSE IF startswith(window_pattern, <<"(", "?", "=">>)
             THEN _matches_regex_pattern(window_pattern, win.title)
        ELSE Contains(lower(window_pattern), lower(win.title))

\* spot_matches_current_window(spot) raises
spot_matches_current_window_raises(spot) ==
    LET window_pattern == spot.window_pattern
    IN  /\ window_pattern # None
        /\ ~startswith(window_pattern, <<"a", "p", "p", ":">>)
        /\ startswith(window_pattern, <<"(", "?", "=">>)
        /\ _matches_regex_pattern_raises(window_pattern)

\* mutant: a window-only lookup that forgets to exclude global spots
_spot_matches_criteria_any(spot, window_only, win) ==
    spot_matches_current_window(spot, win)

_spot_matches_criteria(spot, window_only, win) ==
    IF window_only
    THEN spot.window_pattern # None /\ spot_matches_current_window(spot, win)
    ELSE spot_matches_current_window(spot, win)

-----------------------------------------------------------------------------
(* Profile resolver *)

\* socket.gethostname() of the machine the program runs on
RawHostname == <<"h", ".", "l">>

\* mutant: a key that leaves the machine out
HostnameNone(hostname) == <<>>

\* get_hostname() on a machine whose socket.gethostname() is hostname
HostnameOf(hostname) ==
    LET dots == {i \in 1..Len(hostname) : hostname[i] = "."}
    IN  IF dots = {} THEN hostname
        ELSE SubSeq(hostname, 1, (CHOOSE i \in dots : \A k \in dots : i <= k) - 1)

get_hostname == HostnameOf(RawHostname)

\* A screen is its rect: [x, y, width, height].
RectContains(rect, x, y) ==
    /\ rect.x <= x /\ x < rect.x + rect.width
    /\ rect.y <= y /\ y < rect.y + rect.height

\* The profile key "{hostname}-{screen_index}-{width}x{height}", kept as the
\* tuple of the four values the f-string joins.  Screen indices are 0-based.
ScreenProfileOn(hostname, scr, screen_index) ==
    LET idx == IF screen_index < 0 \/ screen_index >= Len(scr) THEN 0 ELSE screen_index
        screen == scr[idx + 1]
    IN  <<HostnameOf(hostname), idx, screen.width, screen.height>>

get_screen_profile(scr, screen_index) == ScreenProfileOn(RawHostname, scr, screen_index)

get_all_current_profiles(scr) ==
    [i \in 1..Len(scr) |-> get_screen_profile(scr, i - 1)]

\* mutant: the last screen that contains the point is chosen
get_screen_for_point_last(scr, x, y) ==
    LET hits == {i \in 1..Len(scr) : RectContains(scr[i], x, y)}
    IN  IF hits = {} THEN 0
        ELSE (CHOOSE i \in hits : \A k \in hits : k <= i) - 1

get_screen_for_point(scr, x, y) ==
    LET hits == {i \in 1..Len(scr) : RectContains(scr[i], x, y)}
    IN  IF hits = {} THEN 0
        ELSE (CHOOSE i \in hits : \A k \in hits : i <= k) - 1

-----------------------------------------------------------------------------
(* Python dict {name: {"coords": [x, y], "window_pattern": ...}} *)

Spot(x, y, window_pattern) == [coords |-> <<x, y>>, window_pattern |-> window_pattern]

\* {}
EmptyDict == <<>>

DictKeys(d) == DOMAIN d

\* mutant: assigning an existing key keeps the old value
DictSetKeepOld(d, name, spot) ==
    [k \in DOMAIN d \cup {name} |-> IF k \in DOMAIN d THEN d[k] ELSE spot]

\* d[name] = spot
DictSet(d, name, spot) ==
    [k \in DOMAIN d \cup {name} |-> IF k = name THEN spot ELSE d[k]]

\* del d[name]
DictDel(d, name) == [k \in DOMAIN d \ {name} |-> d[k]]

\* spot_dictionary.get(profile, {})
ProfileSpots(dict, profile) == IF profile \in DOMAIN dict THEN dict[profile] ELSE EmptyDict

\* spot names, in the order a dict is iterated
NameOrder == << <<"a">>, <<"b">> >>

Names == {NameOrder[i] : i \in 1..Len(NameOrder)}

\* list(d.keys())
DictItems(d) == SelectSeq(NameOrder, LAMBDA n : n \in DOMAIN d)

-----------------------------------------------------------------------------
(* CSV files: one per profile, a header row and data rows of text cells *)

CSV_HEADERS == <<"Name", "X", "Y", "WindowPattern">>

\* csv_path.is_file() is false
NoFile == [header |-> <<>>, rows |-> <<>>]

DigitChars == <<"0", "1", "2", "3", "4", "5", "6", "7", "8", "9">>

\* str(n), as csv.writer writes an int cell
RECURSIVE IntToText(_)
IntToText(n) ==
    IF n < 0 THEN <<"-">> \o IntToText(0 - n)
    ELSE IF n < 10 THEN <<DigitChars[n + 1]>>
    ELSE IntToText(n \div 10) \o <<DigitChars[(n % 10) + 1]>>

DigitValue(c) == (CHOOSE i \in 1..10 : DigitChars[i] = c) - 1

IsDigit(c) == \E i \in 1..10 : DigitChars[i] = c

RECURSIVE DigitsToInt(_)
DigitsToInt(s) ==
    IF Len(s) = 0 THEN 0
    ELSE 10 * DigitsToInt(SubSeq(s, 1, Len(s) - 1)) + DigitValue(s[Len(s)])

\* int(text): [ok |-> FALSE] stands for ValueError, and for the TypeError
\* of int(None)
TextToInt(text) ==
    LET t == strip(text)
        neg == Len(t) > 0 /\ t[1] = "-"
        body == IF Len(t) > 0 /\ t[1] \in {"-", "+"} THEN SubSeq(t, 2, Len(t)) ELSE t
    IN  IF Len(body) > 0 /\ \A i \in 1..Len(body) : IsDigit(body[i])
        THEN [ok |-> TRUE, value |-> IF neg THEN 0 - DigitsToInt(body) ELSE DigitsToInt(body)]
        ELSE [ok |-> FALSE, value |-> 0]

ensure_csv_exists(d, profile) ==
    IF d[profile] = NoFile
    THEN [d EXCEPT ![profile] = [header |-> CSV_HEADERS, rows |-> <<>>]]
    ELSE d

\* A row is what csv.DictReader yields: a cell is a text, or None when the
\* line has fewer fields than the header.  [ok |-> FALSE] stands for the
\* None the source returns for an invalid row; raised for the
\* AttributeError of None.strip(), which the except clause does not name.
_parse_spot_row(row) ==
    LET name == strip(row.Name)
        x == TextToInt(row.X)
        y == TextToInt(row.Y)
        stripped == strip(row.WindowPattern)
        window_pattern == IF stripped = <<>> THEN None ELSE stripped
    IN  IF name = <<>> \/ ~x.ok \/ ~y.ok
        THEN [ok |-> FALSE, raised |-> FALSE, name |-> name, spot |-> Spot(0, 0, None)]
        ELSE IF row.WindowPattern = None
        THEN [ok |-> FALSE, raised |-> TRUE, name |-> name, spot |-> Spot(0, 0, None)]
        ELSE [ok |-> TRUE, raised |-> FALSE, name |-> name,
              spot |-> Spot(x.value, y.value, window_pattern)]

\* the loop of _read_spots_csv; an exception of _parse_spot_row ends it
RECURSIVE ReadRows(_, _, _)
ReadRows(rows, i, spots) ==
    IF i > Len(rows) THEN [raised |-> FALSE, spots |-> spots]
    ELSE LET result == _parse_spot_row(rows[i])
         IN  IF result.raised THEN [raised |-> TRUE, spots |-> EmptyDict]
             ELSE ReadRows(rows, i + 1,
                           IF result.ok THEN DictSet(spots, result.name, result.spot)
                           ELSE spots)

\* [raised, spots]: the exception that leaves _read_spots_csv, or its result
_read_spots_csv(file) == ReadRows(file.rows, 1, EmptyDict)

\* load_spots_for_profile notifies: the except clause has caught an exception
LoadNotifies(d, profile) ==
    d[profile] # NoFile /\ _read_spots_csv(d[profile]).raised

load_spots_for_profile(d, profile) ==
    IF d[profile] = NoFile \/ LoadNotifies(d, profile) THEN EmptyDict
    ELSE _read_spots_csv(d[profile]).spots

\* the row csv.writer writes for one spot
SpotRow(name, spot) ==
    [Name |-> name,
     X |-> IntToText(spot.coords[1]),
     Y |-> IntToText(spot.coords[2]),
     WindowPattern |-> IF spot.window_pattern = None THEN <<>> ELSE spot.window_pattern]

\* the file system after save_spots_for_profile(profile)
save_spots_for_profile(dict, d, profile) ==
    LET spots == ProfileSpots(dict, profile)
        items == DictItems(spots)
    IN  [ensure_csv_exists(d, profile) EXCEPT
            ![profile] = [header |-> CSV_HEADERS,
                          rows |-> [i \in 1..Len(items) |-> SpotRow(items[i], spots[items[i]])]]]

-----------------------------------------------------------------------------
(* Lookup *)

NotFound == [coords |-> None, profile |-> None]

\* mutant: the loop does not stop at the first match, the last match wins
RECURSIVE SpotCoordsLast(_, _, _, _, _, _)
SpotCoordsLast(active, dict, i, spot_key, window_only, win) ==
    IF i > Len(active) THEN NotFound
    ELSE LET profile == active[i]
             spots == ProfileSpots(dict, profile)
             rest == SpotCoordsLast(active, dict, i + 1, spot_key, window_only, win)
         IN  IF rest # NotFound THEN rest
             ELSE IF /\ spot_key \in DictKeys(spots)
                     /\ _spot_matches_criteria(spots[spot_key], window_only, win)
             THEN [coords |-> spots[spot_key].coords, profile |-> profile]
             ELSE NotFound

RECURSIVE SpotCoordsFrom(_, _, _, _, _, _)
SpotCoordsFrom(active, dict, i, spot_key, window_only, win) ==
    IF i > Len(active) THEN NotFound
    ELSE LET profile == active[i]
             spots == ProfileSpots(dict, profile)
         IN  IF /\ spot_key \in DictKeys(spots)
                /\ _spot_matches_criteria(spots[spot_key], window_only, win)
             THEN [coords |-> spots[spot_key].coords, profile |-> profile]
             ELSE SpotCoordsFrom(active, dict, i + 1, spot_key, window_only, win)

\* list(reversed(seq))
\* get_spot_coords raises: the loop reaches a spot whose matching raises
get_spot_coords_raises(active, dict, spot_key, window_only, win) ==
    \E i \in 1..Len(active) :
        /\ spot_key \in DictKeys(ProfileSpots(dict, active[i]))
        /\ spot_matches_current_window_raises(dict[active[i]][spot_key])
        /\ \A k \in 1..(i - 1) :
               spot_key \in DictKeys(ProfileSpots(dict, active[k])) =>
                   /\ ~spot_matches_current_window_raises(dict[active[k]][spot_key])
                   /\ ~_spot_matches_criteria(dict[active[k]][spot_key], window_only, win)

Reversed(seq) == [i \in 1..Len(seq) |-> seq[Len(seq) + 1 - i]]

\* mutant: the profiles are searched from the last one to the first
get_spot_coords_reversed(active, dict, spot_key, window_only, win) ==
    SpotCoordsFrom(Reversed(active), dict, 1, spot_key, window_only, win)

get_spot_coords(active, dict, spot_key, window_only, win) ==
    SpotCoordsFrom(active, dict, 1, spot_key, window_only, win)

RECURSIVE SpotProfileFrom(_, _, _, _)
SpotProfileFrom(active, dict, i, spot_key) ==
    IF i > Len(active) THEN None
    ELSE IF spot_key \in DictKeys(ProfileSpots(dict, active[i])) THEN active[i]
    ELSE SpotProfileFrom(active, dict, i + 1, spot_key)

\* mutant: the last active profile that holds the name is chosen
find_spot_profile_last(active, dict, spot_key) ==
    SpotProfileFrom(Reversed(active), dict, 1, spot_key)

find_spot_profile(active, dict, spot_key) == SpotProfileFrom(active, dict, 1, spot_key)

-----------------------------------------------------------------------------
(* Bounds of the model *)

\* rects of the displays that can be connected; ScreenB overlaps ScreenA
ScreenA == [x |-> 0, y |-> 10, width |-> 2, height |-> 2]
ScreenB == [x |-> 1, y |-> 10, width |-> 2, height |-> 3]

\* ui.screens(), in enumeration order, for each display configuration
DisplayConfigs == {<<ScreenA>>, <<ScreenA, ScreenB>>}

ProfileKeys ==
    UNION {{get_screen_profile(c, i - 1) : i \in 1..Len(c)} : c \in DisplayConfigs}

\* <<1, 10>> lies on both screens, <<2, 11>> on ScreenB only
Points == {<<1, 10>>, <<2, 11>>}

\* window patterns handed to add_spot: None (global) or a non-empty text
Patterns == {None, <<"a", "b">>}

\* explicit screen indices handed to add_spot run from 1 to MaxScreenIndex;
\* index 1 is in range with two displays and out of range with one
MaxScreenIndex == 1

\* screen_index: {} when the argument is left out (None), {i} otherwise
ScreenIndexArgs == {{}} \cup {{i} : i \in 1..MaxScreenIndex}

Titles == {<<"z", "A", "B">>, <<"b">>}

Apps == {<<>>, <<"X">>}

Windows == {Window(t, a) : t \in Titles, a \in Apps}

-----------------------------------------------------------------------------
(* State *)

VARIABLES
    screens,          \* ui.screens(): the connected displays
    active_profiles,  \* global active_profiles
    spot_dictionary,  \* global spot_dictionary: profile -> dict
    disk,             \* profile -> its CSV file, NoFile when there is none
    last,             \* the last operation: its arguments and what it returned
    cleared,          \* the names the active profiles held when
                      \* clear_spot_dictionary last ran; {} once add_spot has run
    stale_run,        \* some operation started while active_profiles was not
                      \* the list of the connected displays' profiles
    storage,          \* talon storage "screen-spots": name -> legacy value
    old_spots_file,   \* OLD_SPOTS_FILE, NoFile when there is none
    backup_file,      \* screen-spots-migrated-backup.csv
    pc,               \* the position of initialize()
    startups,         \* the number of completed runs of initialize()
    unwritable,       \* the profiles whose file open(csv_path, "w") fails for
    outcome,          \* the last operation: the profiles whose failure was
                      \* notified (app.notify), and whether it raised
    loader,           \* a profile file and what load_spots_for_profile made of it
    matcher,          \* a pattern, a title and what the matcher made of them
    segmenter,        \* a title, a minimum and what the segmenter made of them
    resolver,         \* two machines' hostnames, a display and its two keys
    facade,           \* the pending selection, the selecting tag and prompt,
                      \* the cursor, the window and the mouse events issued
    mover             \* the SlowMover: job, targets, cursor and what it did

vars == <<screens, active_profiles, spot_dictionary, disk, last, cleared, stale_run>>

migrateVars == <<storage, old_spots_file, backup_file, pc, startups>>

failVars == <<unwritable, outcome>>

pureVars == <<loader, matcher, segmenter>>

\* the variables the store with working files does not use
uiVars == <<resolver, facade, mover>>

notStore == <<migrateVars, failVars, pureVars, uiVars>>

NoOutcome == [notified |-> {}, raised |-> FALSE]

\* every file can be written
FailIdle ==
    /\ unwritable = {}
    /\ outcome = NoOutcome

\* no pure function is under study
UiIdle ==
    /\ resolver = <<>>
    /\ facade = <<>>
    /\ mover = <<>>

PureIdle ==
    /\ loader = <<>>
    /\ matcher = <<>>
    /\ segmenter = <<>>

\* an installation of the current generation: no legacy data, initialize()
\* has run
MigrateIdle ==
    /\ storage = <<>>
    /\ old_spots_file = NoFile
    /\ backup_file = NoFile
    /\ pc = "done"
    /\ startups = 1

\* replaced: add_spot found the name in the profile it wrote to
Op(op, name, coords, pattern, screen_index, title, result, replaced) ==
    [op |-> op, name |-> name, coords |-> coords, pattern |-> pattern,
     screen_index |-> screen_index, title |-> title, result |-> result,
     replaced |-> replaced]

\* the operation that starts now reads an active_profiles that is out of date
StartsStale == active_profiles # get_all_current_profiles(screens)

Range(seq) == {seq[i] : i \in 1..Len(seq)}

\* names held by some profile of the active list
ActiveNames(active, dict) ==
    UNION {DictKeys(ProfileSpots(dict, active[i])) : i \in 1..Len(active)}

\* load_all_spots(): the new active_profiles and spot_dictionary
load_all_spots(scr, d) ==
    LET active == get_all_current_profiles(scr)
    IN  [active_profiles |-> active,
         spot_dictionary |-> [profile \in Range(active) |-> load_spots_for_profile(d, profile)]]

\* initialize() on an installation that has no file yet
Init ==
    /\ screens \in DisplayConfigs
    /\ disk = [k \in ProfileKeys |-> NoFile]
    /\ active_profiles = load_all_spots(screens, disk).active_profiles
    /\ spot_dictionary = load_all_spots(screens, disk).spot_dictionary
    /\ last = Op("initialize", None, None, None, {}, None, None, FALSE)
    /\ cleared = {}
    /\ stale_run = FALSE
    /\ MigrateIdle
    /\ FailIdle
    /\ UiIdle
    /\ PureIdle

-----------------------------------------------------------------------------
(* Operations *)

\* the profile add_spot resolves for its arguments
add_spot_profile(scr, x, y, screen_index) ==
    LET idx == IF screen_index = {} THEN get_screen_for_point(scr, x, y)
               ELSE CHOOSE i \in screen_index : TRUE
    IN  get_screen_profile(scr, idx)

\* spot_dictionary after add_spot has stored the spot
add_spot_dictionary(dict, profile, name, x, y, window_pattern) ==
    LET known == IF profile \in DOMAIN dict THEN dict ELSE dict @@ (profile :> EmptyDict)
    IN  [known EXCEPT ![profile] = DictSet(@, name, Spot(x, y, window_pattern))]

add_spot(name, x, y, window_pattern, screen_index) ==
    LET profile == add_spot_profile(screens, x, y, screen_index)
        dict == add_spot_dictionary(spot_dictionary, profile, name, x, y, window_pattern)
    IN  /\ spot_dictionary' = dict
        /\ disk' = save_spots_for_profile(dict, disk, profile)
        /\ last' = Op("add_spot", name, <<x, y>>, window_pattern, screen_index, None,
                      profile, name \in DictKeys(ProfileSpots(spot_dictionary, profile)))
        /\ cleared' = {}
        /\ stale_run' = (stale_run \/ StartsStale)
        /\ UNCHANGED <<screens, active_profiles>>

\* mutant: the profiles are emptied in memory and never saved
RECURSIVE ClearAllUnsaved(_, _, _, _)
ClearAllUnsaved(active, i, dict, d) ==
    IF i > Len(active) THEN [spot_dictionary |-> dict, disk |-> d]
    ELSE LET profile == active[i]
             dict1 == IF profile \in DOMAIN dict THEN [dict EXCEPT ![profile] = EmptyDict]
                      ELSE dict @@ (profile :> EmptyDict)
         IN  ClearAllUnsaved(active, i + 1, dict1, d)

\* clear_spot_dictionary: the loop over active_profiles from position i
RECURSIVE ClearAllFrom(_, _, _, _)
ClearAllFrom(active, i, dict, d) ==
    IF i > Len(active) THEN [spot_dictionary |-> dict, disk |-> d]
    ELSE LET profile == active[i]
             dict1 == IF profile \in DOMAIN dict THEN [dict EXCEPT ![profile] = EmptyDict]
                      ELSE dict @@ (profile :> EmptyDict)
         IN  ClearAllFrom(active, i + 1, dict1, save_spots_for_profile(dict1, d, profile))

clear_spot_dictionary ==
    LET r == ClearAllFrom(active_profiles, 1, spot_dictionary, disk)
    IN  /\ spot_dictionary' = r.spot_dictionary
        /\ disk' = r.disk
        /\ last' = Op("clear_spot_dictionary", None, None, None, {}, None, None, FALSE)
        /\ cleared' = ActiveNames(active_profiles, spot_dictionary)
        /\ stale_run' = (stale_run \/ StartsStale)
        /\ UNCHANGED <<screens, active_profiles>>

\* mutant: the spots whose pattern matches the window, by the rules of the
\* matcher, are the ones removed
WindowKeepUnmatched(spots, current_title) ==
    LET keep == {k \in DOMAIN spots :
                    \/ spots[k].window_pattern = None
                    \/ ~spot_matches_current_window(spots[k], Window(current_title, <<>>))}
    IN  [k \in keep |-> spots[k]]

\* the spots clear_spot_dictionary_window keeps in one profile
WindowKeep(spots, current_title) ==
    LET keep == {k \in DOMAIN spots :
                    \/ spots[k].window_pattern = None
                    \/ ~Contains(lower(spots[k].window_pattern), lower(current_title))}
    IN  [k \in keep |-> spots[k]]

RECURSIVE ClearWindowFrom(_, _, _, _, _)
ClearWindowFrom(active, i, dict, d, current_title) ==
    IF i > Len(active) THEN [spot_dictionary |-> dict, disk |-> d]
    ELSE LET profile == active[i]
             kept == WindowKeep(ProfileSpots(dict, profile), current_title)
             dict1 == IF profile \in DOMAIN dict THEN [dict EXCEPT ![profile] = kept]
                      ELSE dict @@ (profile :> kept)
         IN  ClearWindowFrom(active, i + 1, dict1,
                             save_spots_for_profile(dict1, d, profile), current_title)

\* current_title is get_current_window_title(), the only part of the
\* foreground window the operation reads
clear_spot_dictionary_window(current_title) ==
    LET r == ClearWindowFrom(active_profiles, 1, spot_dictionary, disk, current_title)
    IN  /\ spot_dictionary' = r.spot_dictionary
        /\ disk' = r.disk
        /\ last' = Op("clear_spot_dictionary_window", None, None, None, {},
                      current_title, None, FALSE)
        /\ stale_run' = (stale_run \/ StartsStale)
        /\ UNCHANGED <<screens, active_profiles, cleared>>

clear_spot(spot_key) ==
    LET profile == find_spot_profile(active_profiles, spot_dictionary, spot_key)
    IN  /\ last' = Op("clear_spot", spot_key, None, None, {}, None, profile, FALSE)
        /\ IF profile = None
           THEN UNCHANGED <<spot_dictionary, disk>>
           ELSE LET dict == [spot_dictionary EXCEPT ![profile] = DictDel(@, spot_key)]
                IN  /\ spot_dictionary' = dict
                    /\ disk' = save_spots_for_profile(dict, disk, profile)
        /\ stale_run' = (stale_run \/ StartsStale)
        /\ UNCHANGED <<screens, active_profiles, cleared>>

reload_spots ==
    LET r == load_all_spots(screens, disk)
    IN  /\ active_profiles' = r.active_profiles
        /\ spot_dictionary' = r.spot_dictionary
        /\ last' = Op("reload_spots", None, None, None, {}, None, None, FALSE)
        /\ UNCHANGED <<screens, disk, cleared, stale_run>>

\* the host: a display is connected or disconnected
ScreensChange ==
    /\ screens' \in DisplayConfigs \ {screens}
    /\ last' = Op("screens", None, None, None, {}, None, None, FALSE)
    /\ UNCHANGED <<active_profiles, spot_dictionary, disk, cleared, stale_run>>

Put ==
    \E name \in Names, pt \in Points, window_pattern \in Patterns,
       screen_index \in ScreenIndexArgs :
        add_spot(name, pt[1], pt[2], window_pattern, screen_index)

Remove == \E spot_key \in Names : clear_spot(spot_key)

ClearWindow == \E current_title \in Titles : clear_spot_dictionary_window(current_title)

Next ==
    \/ Put /\ UNCHANGED notStore
    \/ Remove /\ UNCHANGED notStore
    \/ clear_spot_dictionary /\ UNCHANGED notStore
    \/ ClearWindow /\ UNCHANGED notStore
    \/ reload_spots /\ UNCHANGED notStore
    \/ ScreensChange /\ UNCHANGED notStore

Spec == Init /\ [][Next]_vars

-----------------------------------------------------------------------------
(* Properties *)

\* find(name, windowOnly) under the window win, in the current state
Find(name, window_only, win) ==
    get_spot_coords(active_profiles, spot_dictionary, name, window_only, win)

\* the spot profile number i of the active list holds under name
Holds(i, name) == name \in DictKeys(ProfileSpots(spot_dictionary, active_profiles[i]))

HeldSpot(i, name) == spot_dictionary[active_profiles[i]][name]

\* C1: round trip: right after put(name, x, y, pattern), find(name,
\* windowOnly=false) under every window the pattern matches (every window,
\* for a global pattern) returns exactly (x, y).
C1_RoundTrip ==
    last.op = "add_spot" =>
        \A win \in Windows :
            spot_matches_current_window(Spot(last.coords[1], last.coords[2], last.pattern), win)
                => Find(last.name, FALSE, win).coords = last.coords

\* C2: find(name, windowOnly=true) never returns a global spot: what it
\* returns is a spot of an active profile whose pattern is not None and
\* matches the current window.
C2_WindowOnlyNeverGlobal ==
    \A name \in Names, win \in Windows :
        LET r == Find(name, TRUE, win)
        IN  r # NotFound =>
                \E i \in 1..Len(active_profiles) :
                    /\ r.profile = active_profiles[i]
                    /\ Holds(i, name)
                    /\ HeldSpot(i, name).window_pattern # None
                    /\ spot_matches_current_window(HeldSpot(i, name), win)
                    /\ r.coords = HeldSpot(i, name).coords

\* a window-only lookup finds a window-specific spot although an active
\* profile holds a global spot of the same name
C2_Witness ==
    \E name \in Names, win \in Windows :
        /\ Find(name, TRUE, win) # NotFound
        /\ \E i \in 1..Len(active_profiles) :
               Holds(i, name) /\ HeldSpot(i, name).window_pattern = None

\* positions of the active list whose profile holds name with a spot that
\* satisfies the match criteria
Candidates(name, window_only, win) ==
    {i \in 1..Len(active_profiles) :
        Holds(i, name) /\ _spot_matches_criteria(HeldSpot(i, name), window_only, win)}

\* C3: find returns the spot of the earliest active profile that holds name
\* with a spot satisfying the criteria, coordinates and profile from that
\* one profile; it returns not-found iff there is no such profile.
C3_FirstMatchingProfile ==
    \A name \in Names, window_only \in BOOLEAN, win \in Windows :
        LET r == Find(name, window_only, win)
            c == Candidates(name, window_only, win)
        IN  /\ (r = NotFound) <=> (c = {})
            /\ c # {} =>
                   \E i \in c :
                       /\ \A k \in c : i <= k
                       /\ r = [coords |-> HeldSpot(i, name).coords,
                               profile |-> active_profiles[i]]

\* two active profiles hold matching spots of one name at different
\* coordinates, and find answers
C3_Witness ==
    \E name \in Names, window_only \in BOOLEAN, win \in Windows :
        \E i, k \in Candidates(name, window_only, win) :
            /\ i < k
            /\ HeldSpot(i, name).coords # HeldSpot(k, name).coords
            /\ Find(name, window_only, win).profile = active_profiles[i]

\* C4 (as claimed): when two active profiles hold name, find never returns
\* the spot of the later-enumerated one, whatever the window and windowOnly.
C4_LaterNeverReturned ==
    \A name \in Names, window_only \in BOOLEAN, win \in Windows :
        \A i, k \in 1..Len(active_profiles) :
            (i < k /\ Holds(i, name) /\ Holds(k, name))
                => Find(name, window_only, win).profile # active_profiles[k]

\* C4 (amended): when two active profiles hold name and the spot of the
\* earlier one satisfies the match criteria, find never returns the spot of
\* the later one.
C4_LaterOnlyWhenEarlierFails ==
    \A name \in Names, window_only \in BOOLEAN, win \in Windows :
        \A i, k \in 1..Len(active_profiles) :
            (/\ i < k /\ Holds(i, name) /\ Holds(k, name)
             /\ _spot_matches_criteria(HeldSpot(i, name), window_only, win))
                => Find(name, window_only, win).profile # active_profiles[k]

\* both profiles hold a spot of the name that satisfies the criteria, and
\* the earlier one is returned
C4_Witness ==
    \E name \in Names, window_only \in BOOLEAN, win \in Windows :
        \E i, k \in 1..Len(active_profiles) :
            /\ i < k /\ Holds(i, name) /\ Holds(k, name)
            /\ _spot_matches_criteria(HeldSpot(i, name), window_only, win)
            /\ _spot_matches_criteria(HeldSpot(k, name), window_only, win)
            /\ HeldSpot(i, name) # HeldSpot(k, name)
            /\ Find(name, window_only, win) =
                   [coords |-> HeldSpot(i, name).coords, profile |-> active_profiles[i]]

\* find(name, windowOnly=false) returns not-found under every window
NotFoundAnywhere(active, dict, name) ==
    \A win \in Windows : get_spot_coords(active, dict, name, FALSE, win) = NotFound

\* C5 (as claimed), on the runs in which every operation started with an
\* up-to-date active_profiles: after clearAll, every name the active
\* profiles held before the call is not found, until the next put.
C5_ClearedUntilPut ==
    ~stale_run =>
        \A name \in cleared : NotFoundAnywhere(active_profiles, spot_dictionary, name)

\* C5 (amended): right after clearAll every name is not found, and a name
\* that is not found stays so over every step that is neither a put nor a
\* reload that changes the active-profile list.
C5_ClearedUntilPutOrReload ==
    [][/\ last'.op = "clear_spot_dictionary" =>
              \A name \in Names : NotFoundAnywhere(active_profiles', spot_dictionary', name)
       /\ \A name \in Names :
              (/\ NotFoundAnywhere(active_profiles, spot_dictionary, name)
               /\ last'.op # "add_spot"
               /\ ~(last'.op = "reload_spots" /\ active_profiles' # active_profiles))
                  => NotFoundAnywhere(active_profiles', spot_dictionary', name)]_vars

\* clearAll has just emptied active profiles that held names, and a reload
\* under the same active-profile list has followed
C5_Witness ==
    /\ cleared # {}
    /\ last.op = "reload_spots"
    /\ \A name \in cleared : NotFoundAnywhere(active_profiles, spot_dictionary, name)

\* the rows of a file that carry the name
RowsNamed(file, name) == {i \in 1..Len(file.rows) : file.rows[i].Name = name}

RowSet(file) == {file.rows[i] : i \in 1..Len(file.rows)}

\* the file holds exactly the spots of the dict, one row each
Persisted(file, spots) ==
    /\ file.header = CSV_HEADERS
    /\ Len(file.rows) = Cardinality(DOMAIN spots)
    /\ \A name \in DOMAIN spots :
           \E i \in 1..Len(file.rows) :
               /\ file.rows[i].Name = name
               /\ TextToInt(file.rows[i].X).value = spots[name].coords[1]
               /\ TextToInt(file.rows[i].Y).value = spots[name].coords[2]
               /\ file.rows[i].WindowPattern =
                      (IF spots[name].window_pattern = None THEN <<>>
                       ELSE spots[name].window_pattern)

\* C6: remove(name) deletes name from the first active profile that holds
\* it, whatever its pattern, persists that profile and changes no other
\* entry in memory or on disk; when no active profile holds name it signals
\* not-found and changes nothing in memory or on disk.
C6_RemoveFirstHolder ==
    [][last'.op = "clear_spot" =>
        LET name == last'.name
            holders == {i \in 1..Len(active_profiles) : Holds(i, name)}
        IN  IF holders = {}
            THEN /\ last'.result = None
                 /\ spot_dictionary' = spot_dictionary
                 /\ disk' = disk
            ELSE \E i \in holders :
                    LET p == active_profiles[i]
                    IN  /\ \A k \in holders : i <= k
                        /\ last'.result = p
                        /\ DOMAIN spot_dictionary' = DOMAIN spot_dictionary
                        /\ DOMAIN spot_dictionary'[p] = DOMAIN spot_dictionary[p] \ {name}
                        /\ \A m \in DOMAIN spot_dictionary'[p] :
                               spot_dictionary'[p][m] = spot_dictionary[p][m]
                        /\ \A q \in DOMAIN spot_dictionary \ {p} :
                               spot_dictionary'[q] = spot_dictionary[q]
                        /\ Persisted(disk'[p], spot_dictionary'[p])
                        /\ RowSet(disk'[p]) =
                               {r \in RowSet(disk[p]) : r.Name # name}
                        /\ \A q \in ProfileKeys \ {p} : disk'[q] = disk[q]
       ]_vars

\* remove has deleted the name from the first holder while a later active
\* profile still holds it
C6_Witness ==
    /\ last.op = "clear_spot"
    /\ last.result # None
    /\ \E i \in 1..Len(active_profiles) :
           /\ Holds(i, last.name)
           /\ \E k \in 1..(i - 1) : active_profiles[k] = last.result

\* C7: after put(name, x, y, pattern) the profile holds exactly one spot
\* called name, with the new coordinates and pattern, in memory and in its
\* persisted rows; the other names of the profile and all other profiles
\* are unchanged; no persisted file has two rows of one name.
C7_Upsert ==
    [][/\ last'.op = "add_spot" =>
            LET name == last'.name
                p == last'.result
                old == ProfileSpots(spot_dictionary, p)
            IN  /\ p \in DOMAIN spot_dictionary'
                /\ DOMAIN spot_dictionary'[p] = DOMAIN old \cup {name}
                /\ spot_dictionary'[p][name] =
                       [coords |-> last'.coords, window_pattern |-> last'.pattern]
                /\ \A m \in DOMAIN old \ {name} : spot_dictionary'[p][m] = old[m]
                /\ \A q \in ProfileKeys \ {p} :
                       /\ q \in DOMAIN spot_dictionary' <=> q \in DOMAIN spot_dictionary
                       /\ ProfileSpots(spot_dictionary', q) = ProfileSpots(spot_dictionary, q)
                       /\ disk'[q] = disk[q]
                /\ Persisted(disk'[p], spot_dictionary'[p])
                /\ Cardinality(RowsNamed(disk'[p], name)) = 1
       /\ \A q \in ProfileKeys, m \in Names : Cardinality(RowsNamed(disk'[q], m)) <= 1
      ]_vars

\* put has overwritten a spot of a profile that holds a second name
C7_Witness ==
    /\ last.op = "add_spot"
    /\ last.replaced
    /\ DOMAIN spot_dictionary[last.result] = Names
    /\ Cardinality(RowsNamed(disk[last.result], last.name)) = 1

\* the profile key of the screen at position i (0-based) of ui.screens()
KeyOfScreen(i) == <<get_hostname, i, screens[i + 1].width, screens[i + 1].height>>

OnScreen(i, pt) == RectContains(screens[i + 1], pt[1], pt[2])

\* C8: put without a screen index stores into and returns the profile of
\* the first connected screen that contains the point, of screen 0 when no
\* screen contains it; put with an out-of-range index stores into and
\* returns the profile of screen 0.
C8_PutProfile ==
    last.op = "add_spot" =>
        LET n == Len(screens)
            pt == last.coords
        IN  /\ last.screen_index = {} =>
                   \/ \E i \in 0..(n - 1) :
                          /\ OnScreen(i, pt)
                          /\ \A k \in 0..(i - 1) : ~OnScreen(k, pt)
                          /\ last.result = KeyOfScreen(i)
                   \/ /\ \A i \in 0..(n - 1) : ~OnScreen(i, pt)
                      /\ last.result = KeyOfScreen(0)
            /\ \A i \in last.screen_index :
                   (i < 0 \/ i >= n) => last.result = KeyOfScreen(0)
            /\ last.result \in DOMAIN spot_dictionary
            /\ last.name \in DOMAIN spot_dictionary[last.result]
            /\ spot_dictionary[last.result][last.name] =
                   [coords |-> pt, window_pattern |-> last.pattern]
            /\ Persisted(disk[last.result], spot_dictionary[last.result])

\* put without a screen index, for a point on two screens, has stored into
\* the profile of the first of them
C8_Witness ==
    /\ last.op = "add_spot"
    /\ last.screen_index = {}
    /\ Cardinality({i \in 0..(Len(screens) - 1) : OnScreen(i, last.coords)}) = 2
    /\ last.result = KeyOfScreen(0)

\* C9: display changes, reload, remove, clearAll and clearMatchingWindow
\* never change the persisted rows of a profile that is not active, that
\* is, not the profile of a display connected when the operation runs.
C9_InactiveRowsKept ==
    [][last'.op \in {"screens", "reload_spots", "clear_spot", "clear_spot_dictionary",
                     "clear_spot_dictionary_window"} =>
          \A p \in ProfileKeys \ Range(get_all_current_profiles(screens)) :
              disk'[p].rows = disk[p].rows]_vars

\* C10: at the start of every operation active_profiles is the list of the
\* profile keys of the connected displays, in enumeration order, so the
\* profile put has written to is one find searches.
C10_ActiveListCurrent ==
    /\ active_profiles = get_all_current_profiles(screens)
    /\ last.op = "add_spot" => last.result \in Range(active_profiles)

\* the persisted row of the name in the file of the profile, <<>> when
\* the file has none
RowOf(d, p, name) ==
    IF RowsNamed(d[p], name) = {} THEN <<>>
    ELSE d[p].rows[CHOOSE i \in RowsNamed(d[p], name) : TRUE]

\* the step removes the name from the profile or saves it again there
RemovesOrResaves(op, p, name) ==
    \/ op.op = "add_spot" /\ op.result = p /\ op.name = name
    \/ op.op = "clear_spot" /\ op.name = name
    \/ op.op \in {"clear_spot_dictionary", "clear_spot_dictionary_window"}

\* C11: a saved spot that is neither removed nor re-saved under its profile
\* and name stays persisted over every step, is never returned by find
\* while the display of its profile is not connected, and is held again
\* with the same coordinates by its profile after a reload under its
\* display configuration.
C11_SavedSpotComesBack ==
    [][\A p \in ProfileKeys, name \in Names :
          LET row == RowOf(disk, p, name)
          IN  row # <<>> =>
                /\ ~RemovesOrResaves(last', p, name) => RowOf(disk', p, name) = row
                /\ p \notin Range(get_all_current_profiles(screens')) =>
                       \A win \in Windows, window_only \in BOOLEAN :
                           get_spot_coords(active_profiles', spot_dictionary', name,
                                           window_only, win).profile # p
                /\ (/\ last'.op = "reload_spots"
                    /\ p \in Range(get_all_current_profiles(screens'))
                    /\ RowOf(disk', p, name) = row)
                       => /\ p \in Range(active_profiles')
                          /\ name \in DOMAIN spot_dictionary'[p]
                          /\ spot_dictionary'[p][name].coords =
                                 <<TextToInt(row.X).value, TextToInt(row.Y).value>>
      ]_vars

-----------------------------------------------------------------------------
(* Migration: talon storage -> CSV, single CSV -> per-profile CSVs *)

\* mutant: no per-profile file is ever seen
_has_existing_profile_csvs_never(d, backup) == FALSE

\* SPOTS_DIR.glob("screen-spots-*.csv"): the per-profile files and the
\* backup file, whose name the pattern matches too; OLD_SPOTS_FILE
\* (screen-spots.csv) does not match the pattern
_has_existing_profile_csvs(d, backup) ==
    \/ \E profile \in DOMAIN d : d[profile] # NoFile
    \/ backup # NoFile

\* a legacy storage value: a list [x, y], a dict {"coords": [x, y]} or
\* anything else; [ok |-> FALSE] stands for None
_convert_old_spot_value(value) ==
    IF value.shape \in {"list", "dict"}
    THEN [ok |-> TRUE, spot |-> Spot(value.coords[1], value.coords[2], None)]
    ELSE [ok |-> FALSE, spot |-> Spot(0, 0, None)]

_convert_old_storage_data(old_data) ==
    LET kept == {name \in DOMAIN old_data : _convert_old_spot_value(old_data[name]).ok}
    IN  [name \in kept |-> _convert_old_spot_value(old_data[name]).spot]

\* an exception yields None, which the caller takes like an empty mapping
_load_old_spots_file(old) ==
    IF _read_spots_csv(old).raised THEN EmptyDict ELSE _read_spots_csv(old).spots

\* spot_dictionary[profile] = spots
SetProfile(dict, profile, spots) ==
    [q \in DOMAIN dict \cup {profile} |-> IF q = profile THEN spots ELSE dict[q]]

\* migrate_from_storage() applies: storage holds convertible data and no
\* per-profile file exists
StorageApplies(m) ==
    /\ DOMAIN m.storage # {}
    /\ ~_has_existing_profile_csvs(m.disk, m.backup_file)
    /\ _convert_old_storage_data(m.storage) # EmptyDict

\* migrate_old_spots() applies
OldApplies(m) ==
    /\ m.old_spots_file # NoFile
    /\ ~_has_existing_profile_csvs(m.disk, m.backup_file)
    /\ _load_old_spots_file(m.old_spots_file) # EmptyDict

\* One sub-step of initialize() from the position m.pc; scr is what
\* ui.screens() returns, rename_fails whether OLD_SPOTS_FILE.rename raises.
\*   start            migrate_from_storage up to ensure_csv_exists
\*   storage_created  the rows of the storage spots are written
\*   storage_done     migrate_old_spots up to ensure_csv_exists
\*   old_created      the rows of the legacy spots are written
\*   old_written      _backup_old_spots_file
\*   old_done         load_all_spots
InitializeStep(m, scr, rename_fails) ==
    LET profile == get_screen_profile(scr, 0)
    IN  CASE m.pc = "start" ->
                IF StorageApplies(m)
                THEN [m EXCEPT !.pc = "storage_created",
                               !.spot_dictionary =
                                   SetProfile(@, profile, _convert_old_storage_data(m.storage)),
                               !.disk = ensure_csv_exists(@, profile)]
                ELSE [m EXCEPT !.pc = "storage_done"]
          [] m.pc = "storage_created" ->
                [m EXCEPT !.pc = "storage_done",
                          !.disk = save_spots_for_profile(m.spot_dictionary, @, profile)]
          [] m.pc = "storage_done" ->
                IF OldApplies(m)
                THEN [m EXCEPT !.pc = "old_created",
                               !.spot_dictionary =
                                   SetProfile(@, profile, _load_old_spots_file(m.old_spots_file)),
                               !.disk = ensure_csv_exists(@, profile)]
                ELSE [m EXCEPT !.pc = "old_done"]
          [] m.pc = "old_created" ->
                [m EXCEPT !.pc = "old_written",
                          !.disk = save_spots_for_profile(m.spot_dictionary, @, profile)]
          [] m.pc = "old_written" ->
                IF rename_fails THEN [m EXCEPT !.pc = "old_done"]
                ELSE [m EXCEPT !.pc = "old_done",
                               !.backup_file = m.old_spots_file,
                               !.old_spots_file = NoFile]
          [] m.pc = "old_done" ->
                [m EXCEPT !.pc = "done",
                          !.active_profiles = load_all_spots(scr, m.disk).active_profiles,
                          !.spot_dictionary = load_all_spots(scr, m.disk).spot_dictionary]
          [] OTHER -> m

\* initialize() run to its end
RECURSIVE InitializeFrom(_, _, _)
InitializeFrom(m, scr, rename_fails) ==
    IF m.pc = "done" THEN m
    ELSE InitializeFrom(InitializeStep(m, scr, rename_fails), scr, rename_fails)

\* the process state at the start of a session: module globals are empty
Started ==
    [pc |-> "start", storage |-> storage, old_spots_file |-> old_spots_file,
     backup_file |-> backup_file, disk |-> disk,
     spot_dictionary |-> <<>>, active_profiles |-> <<>>]

Running ==
    [pc |-> pc, storage |-> storage, old_spots_file |-> old_spots_file,
     backup_file |-> backup_file, disk |-> disk,
     spot_dictionary |-> spot_dictionary, active_profiles |-> active_profiles]

\* the variables take the state m
Becomes(m) ==
    /\ pc' = m.pc
    /\ storage' = m.storage
    /\ old_spots_file' = m.old_spots_file
    /\ backup_file' = m.backup_file
    /\ disk' = m.disk
    /\ spot_dictionary' = m.spot_dictionary
    /\ active_profiles' = m.active_profiles

-----------------------------------------------------------------------------
(* Legacy installations *)

LegacyCoords == {<<1, 10>>, <<2, 11>>}

StorageValues ==
    {[shape |-> sh, coords |-> c] : sh \in {"list", "dict"}, c \in LegacyCoords}
        \cup {[shape |-> "other", coords |-> <<>>]}

\* storage contents: the values of some of the names
Storages == UNION {[ns -> StorageValues] : ns \in SUBSET Names}

RowA == [Name |-> <<"a">>, X |-> <<"2">>, Y |-> <<"1", "1">>, WindowPattern |-> <<>>]
RowB == [Name |-> <<"b">>, X |-> <<"1">>, Y |-> <<"1", "0">>, WindowPattern |-> <<"a", "b">>]
RowBad == [Name |-> <<"b">>, X |-> <<"z">>, Y |-> <<"1", "0">>, WindowPattern |-> <<>>]

LegacyRows == {RowA, RowB, RowBad}

MaxLegacyRows == 2

\* the legacy single CSV: absent, or a header and up to MaxLegacyRows rows
LegacyFiles ==
    {NoFile} \cup
    {[header |-> CSV_HEADERS, rows |-> rows] :
        rows \in UNION {[1..n -> LegacyRows] : n \in 0..MaxLegacyRows}}

\* the per-profile files found at the first startup: none, or a file left
\* by this generation for the second display
FirstDisks ==
    {[k \in ProfileKeys |-> NoFile],
     [k \in ProfileKeys |->
         IF k = get_screen_profile(<<ScreenA, ScreenB>>, 1)
         THEN [header |-> CSV_HEADERS, rows |-> <<>>] ELSE NoFile]}

MaxStartups == 2

\* the variables of the store that the migration does not use
StoreObserversIdle ==
    /\ last = Op("initialize", None, None, None, {}, None, None, FALSE)
    /\ cleared = {}
    /\ stale_run = FALSE

\* a machine on which initialize() has not run yet
InitMigrate ==
    /\ screens \in DisplayConfigs
    /\ storage \in Storages
    /\ old_spots_file \in LegacyFiles
    /\ backup_file = NoFile
    /\ disk \in FirstDisks
    /\ spot_dictionary = <<>>
    /\ active_profiles = <<>>
    /\ pc = "start"
    /\ startups = 0
    /\ StoreObserversIdle
    /\ FailIdle
    /\ UiIdle
    /\ PureIdle

\* talon starts and runs initialize() to its end
initialize ==
    /\ startups < MaxStartups
    /\ \E rename_fails \in BOOLEAN :
           Becomes(InitializeFrom(Started, screens, rename_fails))
    /\ startups' = startups + 1
    /\ UNCHANGED <<screens, last, cleared, stale_run, failVars, pureVars, uiVars>>

NextMigrate == initialize

SpecMigrate == InitMigrate /\ [][NextMigrate]_<<vars, migrateVars>>

\* The same startup, one sub-step at a time, on an installation without
\* per-profile files.
InitMigrateSteps ==
    /\ InitMigrate
    /\ disk = [k \in ProfileKeys |-> NoFile]

\* initialize() takes its next sub-step
InitializeNext ==
    /\ pc # "done"
    /\ \E rename_fails \in BOOLEAN :
           Becomes(InitializeStep(Running, screens, rename_fails))
    /\ startups' = IF pc = "old_done" THEN startups + 1 ELSE startups
    /\ UNCHANGED <<screens, last, cleared, stale_run, failVars, pureVars, uiVars>>

\* the process is killed between two sub-steps and talon starts again
Interrupt ==
    /\ pc \notin {"start", "done"}
    /\ Becomes(Started)
    /\ UNCHANGED <<startups, screens, last, cleared, stale_run, failVars, pureVars, uiVars>>

\* talon is restarted after a completed startup
Restart ==
    /\ pc = "done"
    /\ startups < MaxStartups
    /\ Becomes(Started)
    /\ UNCHANGED <<startups, screens, last, cleared, stale_run, failVars, pureVars, uiVars>>

NextMigrateSteps ==
    \/ InitializeNext
    \/ Interrupt
    \/ Restart

SpecMigrateSteps == InitMigrateSteps /\ [][NextMigrateSteps]_<<vars, migrateVars>>

-----------------------------------------------------------------------------
(* Properties of the migration *)

Profile0 == get_screen_profile(screens, 0)

\* the spots of the legacy single CSV, renamed or not
LegacySpots ==
    _load_old_spots_file(IF old_spots_file # NoFile THEN old_spots_file ELSE backup_file)

\* the spots of the legacy storage
StorageSpots == _convert_old_storage_data(storage)

AllFiles == <<disk, old_spots_file, backup_file>>

\* C12: a second run of the migration right after a first one leaves every
\* file as the first run left it, and once the legacy file has been renamed
\* to the backup name the precondition of the legacy-CSV migration is false
\* at every later startup.
C12_MigrationIdempotent ==
    [][/\ startups >= 1 => AllFiles' = AllFiles
       /\ backup_file' # NoFile =>
              /\ old_spots_file' = NoFile
              /\ ~OldApplies([Started EXCEPT !.pc = "storage_done"])'
      ]_<<vars, migrateVars>>

\* a first run has migrated the legacy file and renamed it, and a second
\* run has followed
C12_Witness ==
    /\ startups = 2
    /\ backup_file # NoFile
    /\ DOMAIN ProfileSpots(spot_dictionary, Profile0) # {}

\* C13: whenever initialize() completes, after any number of interrupted
\* attempts, on an installation whose only legacy source is the single
\* CSV, profile 0 holds every legacy spot, and its file has one row for each.
C13_InterruptedMigrationRecovers ==
    (pc = "done" /\ DOMAIN storage = {}) =>
        /\ \A name \in DOMAIN LegacySpots :
               /\ name \in DOMAIN ProfileSpots(spot_dictionary, Profile0)
               /\ spot_dictionary[Profile0][name] = LegacySpots[name]
               /\ Cardinality(RowsNamed(disk[Profile0], name)) = 1

\* C14: the first initialize() on an installation without per-profile
\* files puts every storage entry of either shape and every valid row of
\* the legacy CSV into profile 0 (for a name both sources hold, the spot of
\* either).
C14_NoLegacyDataLost ==
    [][(startups = 0 /\ ~_has_existing_profile_csvs(disk, backup_file)) =>
          \A name \in DOMAIN StorageSpots \cup DOMAIN LegacySpots :
              /\ name \in DOMAIN ProfileSpots(spot_dictionary', Profile0)
              /\ \/ /\ name \in DOMAIN StorageSpots
                    /\ spot_dictionary'[Profile0][name] = StorageSpots[name]
                 \/ /\ name \in DOMAIN LegacySpots
                    /\ spot_dictionary'[Profile0][name] = LegacySpots[name]
      ]_<<vars, migrateVars>>

-----------------------------------------------------------------------------
(* The store with patterns of every kind *)

AppPattern == <<"a", "p", "p", ":", "X">>

LookaheadPattern == <<"(", "?", "=", ".", "*", "b", ")">>

\* global, plain substring, application, combined
KindPatterns == {None, <<"a", "b">>, AppPattern, LookaheadPattern}

\* a title that contains "ab" and the letter the lookahead asks for, and a
\* title that contains the text of the application pattern
KindTitles == {<<"z", "A", "B">>, <<"A", "P", "P", ":", "x">>}

PutKinds ==
    \E name \in Names, pt \in Points, window_pattern \in KindPatterns :
        add_spot(name, pt[1], pt[2], window_pattern, {})

ClearWindowKinds ==
    \E current_title \in KindTitles : clear_spot_dictionary_window(current_title)

NextWindow ==
    \/ PutKinds /\ UNCHANGED notStore
    \/ ClearWindowKinds /\ UNCHANGED notStore

SpecWindow == Init /\ [][NextWindow]_vars

\* clearMatchingWindow removes the spot: its pattern is not global and its
\* text is contained in the title, letter case ignored
TextInTitle(spot, title) ==
    /\ spot.window_pattern # None
    /\ Contains(lower(spot.window_pattern), lower(title))

-----------------------------------------------------------------------------
(* The store with files that cannot be written *)

\* save_spots_for_profile(profile) when open(csv_path, "w") raises for the
\* profiles of unwr.  ensure_csv_exists opens the file outside the try
\* block, so its exception leaves the function; the exception of the
\* second open is caught and notified.
save_spots_for_profile_io(dict, d, profile, unwr) ==
    IF d[profile] = NoFile /\ profile \in unwr
    THEN [disk |-> d, notified |-> FALSE, raised |-> TRUE]
    ELSE IF profile \in unwr
    THEN [disk |-> ensure_csv_exists(d, profile), notified |-> TRUE, raised |-> FALSE]
    ELSE [disk |-> save_spots_for_profile(dict, d, profile),
          notified |-> FALSE, raised |-> FALSE]

\* clear_spot_dictionary: the loop from position i; an exception ends it
RECURSIVE ClearAllIO(_, _, _, _, _, _)
ClearAllIO(active, i, dict, d, unwr, notified) ==
    IF i > Len(active)
    THEN [spot_dictionary |-> dict, disk |-> d, notified |-> notified, raised |-> FALSE]
    ELSE LET profile == active[i]
             dict1 == SetProfile(dict, profile, EmptyDict)
             saved == save_spots_for_profile_io(dict1, d, profile, unwr)
         IN  IF saved.raised
             THEN [spot_dictionary |-> dict1, disk |-> saved.disk,
                   notified |-> notified, raised |-> TRUE]
             ELSE ClearAllIO(active, i + 1, dict1, saved.disk, unwr,
                             IF saved.notified THEN notified \cup {profile} ELSE notified)

clear_spot_dictionary_io ==
    LET r == ClearAllIO(active_profiles, 1, spot_dictionary, disk, unwritable, {})
    IN  /\ spot_dictionary' = r.spot_dictionary
        /\ disk' = r.disk
        /\ outcome' = [notified |-> r.notified, raised |-> r.raised]
        /\ last' = Op("clear_spot_dictionary", None, None, None, {}, None, None, FALSE)
        /\ cleared' = ActiveNames(active_profiles, spot_dictionary)
        /\ UNCHANGED <<screens, active_profiles, stale_run, unwritable>>

\* a put while every file can be written
PutWritable ==
    /\ unwritable = {}
    /\ \E name \in Names, pt \in Points :
           add_spot(name, pt[1], pt[2], None, {})
    /\ outcome' = NoOutcome
    /\ UNCHANGED unwritable

\* the host: files and the directory become writable or not
PermissionsChange ==
    /\ unwritable' \in SUBSET Range(active_profiles) \ {unwritable}
    /\ last' = Op("permissions", None, None, None, {}, None, None, FALSE)
    /\ outcome' = NoOutcome
    /\ UNCHANGED <<screens, active_profiles, spot_dictionary, disk, cleared, stale_run>>

InitFail ==
    /\ Init
    /\ screens = <<ScreenA, ScreenB>>

NextFail ==
    \/ PutWritable /\ UNCHANGED <<migrateVars, pureVars, uiVars>>
    \/ PermissionsChange /\ UNCHANGED <<migrateVars, pureVars, uiVars>>
    \/ clear_spot_dictionary_io /\ UNCHANGED <<migrateVars, pureVars, uiVars>>

SpecFail == InitFail /\ [][NextFail]_<<vars, failVars>>

\* C16: when the file of an active profile cannot be written during
\* clearAll, the failure is notified, no error reaches the caller, and
\* every other active profile is emptied and persisted.
C16_FailureConfined ==
    [][last'.op = "clear_spot_dictionary" =>
          /\ ~outcome'.raised
          /\ \A i \in 1..Len(active_profiles) :
                LET p == active_profiles[i]
                IN  IF p \in unwritable
                    THEN p \in outcome'.notified
                    ELSE /\ ProfileSpots(spot_dictionary', p) = EmptyDict
                         /\ Persisted(disk'[p], EmptyDict)
      ]_<<vars, failVars>>

-----------------------------------------------------------------------------
(* The loader on hand-edited files *)

RowGlobal == [Name |-> <<"a">>, X |-> <<"1">>, Y |-> <<"1", "0">>, WindowPattern |-> <<>>]
RowPattern == [Name |-> <<"b">>, X |-> <<"2">>, Y |-> <<"1", "1">>, WindowPattern |-> <<"a", "b">>]
RowPadded == [Name |-> <<" ", "a">>, X |-> <<" ", "2">>, Y |-> <<"-", "3">>,
              WindowPattern |-> <<"a", "b", " ">>]
RowBadCoordinate == [Name |-> <<"b">>, X |-> <<"1", ".", "5">>, Y |-> <<"1", "0">>,
                     WindowPattern |-> <<>>]
RowNoName == [Name |-> <<" ">>, X |-> <<"1">>, Y |-> <<"1", "0">>, WindowPattern |-> <<>>]
\* lines with three fields and with two
RowThreeFields == [Name |-> <<"a">>, X |-> <<"1">>, Y |-> <<"1", "0">>, WindowPattern |-> None]
RowTwoFields == [Name |-> <<"b">>, X |-> <<"1">>, Y |-> None, WindowPattern |-> None]

LoadRows ==
    {RowGlobal, RowPattern, RowPadded, RowBadCoordinate, RowNoName,
     RowThreeFields, RowTwoFields}

MaxLoadRows == 3

LoadFiles ==
    {NoFile} \cup
    {[header |-> CSV_HEADERS, rows |-> rows] :
        rows \in UNION {[1..n -> LoadRows] : n \in 0..MaxLoadRows}}

LoadProfile == get_screen_profile(<<ScreenA>>, 0)

InitLoad ==
    /\ loader \in {[file |-> f, loaded |-> FALSE, spots |-> EmptyDict, notified |-> FALSE] :
                      f \in LoadFiles}
    /\ matcher = <<>>
    /\ segmenter = <<>>
    /\ screens = <<ScreenA>>
    /\ active_profiles = <<>>
    /\ spot_dictionary = <<>>
    /\ disk = [k \in ProfileKeys |-> NoFile]
    /\ StoreObserversIdle
    /\ MigrateIdle
    /\ FailIdle
    /\ UiIdle

\* load_spots_for_profile(profile) on the file
Load ==
    /\ ~loader.loaded
    /\ LET d == [disk EXCEPT ![LoadProfile] = loader.file]
       IN  loader' = [loader EXCEPT !.loaded = TRUE,
                                    !.spots = load_spots_for_profile(d, LoadProfile),
                                    !.notified = LoadNotifies(d, LoadProfile)]
    /\ UNCHANGED <<vars, migrateVars, failVars, uiVars, matcher, segmenter>>

NextLoad == Load

SpecLoad == InitLoad /\ [][NextLoad]_loader

\* the row has all its fields, a name and two parsable coordinates
ValidRow(row) ==
    /\ row.WindowPattern # None
    /\ strip(row.Name) # <<>>
    /\ TextToInt(row.X).ok
    /\ TextToInt(row.Y).ok

\* the spot a valid row stands for
RowSpot(row) ==
    Spot(TextToInt(row.X).value, TextToInt(row.Y).value,
         IF strip(row.WindowPattern) = <<>> THEN None ELSE strip(row.WindowPattern))

\* C17: loading skips the rows with an unparsable coordinate or an empty
\* name and nothing else: every valid row is loaded with its coordinates
\* and pattern, an empty pattern as global (of several valid rows of one
\* name, the last); a missing file loads as an empty mapping without error.
C17_MalformedRowsSkipped ==
    loader.loaded =>
        IF loader.file = NoFile
        THEN loader.spots = EmptyDict /\ ~loader.notified
        ELSE LET rows == loader.file.rows
                 valid == {i \in 1..Len(rows) : ValidRow(rows[i])}
             IN  /\ DOMAIN loader.spots = {strip(rows[i].Name) : i \in valid}
                 /\ \A i \in valid :
                        (\A k \in valid : strip(rows[k].Name) = strip(rows[i].Name) => k <= i)
                            => loader.spots[strip(rows[i].Name)] = RowSpot(rows[i])

-----------------------------------------------------------------------------
(* Matching of combined and hand-edited patterns *)

\* Characters re.escape puts a backslash before.
EscapeSpecial ==
    {"(", ")", "[", "]", "{", "}", "?", "*", "+", "-", "|", "^", "$", "\\", ".",
     "&", "~", "#", " ", "\t", "\n", "\r"}

\* re.escape(seg)
RECURSIVE re_escape(_)
re_escape(seg) ==
    IF seg = <<>> THEN <<>>
    ELSE (IF Head(seg) \in EscapeSpecial THEN <<"\\", Head(seg)>> ELSE <<Head(seg)>>)
             \o re_escape(Tail(seg))

\* mutant: a pattern that asks for the first segment only
combined_first(unique_segments) ==
    IF unique_segments = <<>> THEN <<>>
    ELSE <<"(", "?", "=", ".", "*">> \o re_escape(Head(unique_segments)) \o <<")">>

\* "".join(f"(?=.*{re.escape(seg)})" for seg in unique_segments)
RECURSIVE combined(_)
combined(unique_segments) ==
    IF unique_segments = <<>> THEN <<>>
    ELSE <<"(", "?", "=", ".", "*">> \o re_escape(Head(unique_segments)) \o <<")">>
             \o combined(Tail(unique_segments))

\* fragments of a title, as the segmenter returns them
MatchSegments == {<<"a", "b">>, <<"b", ".">>, <<"a">>}

MaxCombined == 2

\* lists of two or more distinct fragments
SegmentLists ==
    {l \in UNION {[1..n -> MatchSegments] : n \in 2..MaxCombined} :
        \A i, k \in 1..Len(l) : i # k => l[i] # l[k]}

MatchAlphabet == {"A", "b", ".", "\n"}

MaxMatchTitle == 4

MatchTitles == UNION {[1..n -> MatchAlphabet] : n \in 0..MaxMatchTitle}

\* patterns as a hand-edited CSV can hold them: an unterminated group, a
\* pattern that ends in a backslash, a group that is never opened past
\* its first three characters, a repetition count beyond what re accepts
UnterminatedPattern == <<"(", "?", "=", ".", "*", "a">>

BackslashPattern == <<"(", "?", "=", ".", "*", "a", "\\">>

BarePattern == <<"(", "?", "=">>

RepeatPattern ==
    <<"(", "?", "=", ".", "*", "a", "{", "9", "9", "9", "9", "9", "9", "9", "9", "9", "9", "9", "}", ")">>

HandPatterns == {UnterminatedPattern, BackslashPattern, BarePattern, RepeatPattern}

\* titles that do and do not contain the text of a hand-edited pattern
HandTitles ==
    {<<"z", "(", "?", "=", ".", "*", "A">>, <<"x", "(", "?", "=">>, <<"a">>, RepeatPattern}

\* the two profiles of the lookup and the spots the name has in them
MatchFirst == get_screen_profile(<<ScreenA, ScreenB>>, 0)

MatchSecond == get_screen_profile(<<ScreenA, ScreenB>>, 1)

MatchDictionary(pattern) ==
    (MatchFirst :> DictSet(EmptyDict, <<"a">>, Spot(1, 10, pattern)))
        @@ (MatchSecond :> DictSet(EmptyDict, <<"a">>, Spot(2, 11, None)))

NewMatch(segments, pattern, title) ==
    [segments |-> segments, pattern |-> pattern, title |-> title, done |-> FALSE,
     raised |-> FALSE, matched |-> FALSE, found |-> NotFound]

InitMatch ==
    /\ matcher \in {NewMatch(l, combined(l), t) : l \in SegmentLists, t \in MatchTitles}
                       \cup {NewMatch(<<>>, q, t) : q \in HandPatterns, t \in HandTitles}
    /\ loader = <<>>
    /\ segmenter = <<>>
    /\ screens = <<ScreenA, ScreenB>>
    /\ active_profiles = get_all_current_profiles(<<ScreenA, ScreenB>>)
    /\ spot_dictionary = <<>>
    /\ disk = [k \in ProfileKeys |-> NoFile]
    /\ StoreObserversIdle
    /\ MigrateIdle
    /\ FailIdle
    /\ UiIdle

\* spot_matches_current_window(spot) on a spot with the pattern, and
\* get_spot_coords of its name over the two profiles, under the title
Match ==
    /\ ~matcher.done
    /\ LET win == Window(matcher.title, <<>>)
           spot == Spot(1, 10, matcher.pattern)
           dict == MatchDictionary(matcher.pattern)
           raises == spot_matches_current_window_raises(spot)
       IN  matcher' = [matcher EXCEPT
               !.done = TRUE,
               !.raised = raises,
               !.matched = ~raises /\ spot_matches_current_window(spot, win),
               !.found = IF get_spot_coords_raises(active_profiles, dict, <<"a">>, FALSE, win)
                         THEN NotFound
                         ELSE get_spot_coords(active_profiles, dict, <<"a">>, FALSE, win)]
    /\ UNCHANGED <<vars, migrateVars, failVars, uiVars, loader, segmenter>>

NextMatch == Match

SpecMatch == InitMatch /\ [][NextMatch]_matcher

\* C18: a combined pattern built from segments matches a title exactly
\* when every segment is a case-insensitive substring of the title, in
\* whatever order the segments occur there.
C18_CombinedIsConjunction ==
    (matcher.done /\ matcher.segments # <<>>) =>
        (matcher.matched <=>
            \A i \in 1..Len(matcher.segments) :
                Contains(lower(matcher.segments[i]), lower(matcher.title)))

\* the pattern begins a lookahead and re cannot compile it
MalformedRegex(pattern) ==
    /\ startswith(pattern, <<"(", "?", "=">>)
    /\ RegexParse(pattern, 1, <<>>).kind \in {"error", "overflow"}

\* C19: a pattern that is a malformed regular expression makes no lookup
\* fail: its match result is the case-insensitive containment of the
\* pattern text in the title, and the lookup returns this spot when it
\* matches and the spot of the next active profile when it does not.
C19_MalformedFallsBack ==
    (matcher.done /\ MalformedRegex(matcher.pattern)) =>
        LET inTitle == Contains(lower(matcher.pattern), lower(matcher.title))
        IN  /\ ~matcher.raised
            /\ matcher.matched = inTitle
            /\ matcher.found = IF inTitle
                               THEN [coords |-> <<1, 10>>, profile |-> MatchFirst]
                               ELSE [coords |-> <<2, 11>>, profile |-> MatchSecond]

-----------------------------------------------------------------------------
(* Title segmenter (src/window_title_parser.py) *)

\* the number of whitespace characters that start at position i
RECURSIVE SpaceRun(_, _)
SpaceRun(t, i) ==
    IF i > Len(t) \/ ~IsSpace(t[i]) THEN 0 ELSE 1 + SpaceRun(t, i + 1)

\* the number of non-whitespace characters that start at position i
RECURSIVE TextRun(_, _)
TextRun(t, i) ==
    IF i > Len(t) \/ IsSpace(t[i]) THEN 0 ELSE 1 + TextRun(t, i + 1)

\* the length of the protocol "http://" or "https://" at position i, 0
\* when there is none
ProtocolAt(t, i) ==
    IF startswith(SubSeq(t, i, Len(t)), <<"h", "t", "t", "p", "s", ":", "/", "/">>) THEN 8
    ELSE IF startswith(SubSeq(t, i, Len(t)), <<"h", "t", "t", "p", ":", "/", "/">>) THEN 7
    ELSE 0

\* the length of the match of url_pattern at position i, 0 when there is
\* none: the protocol and at least one character that is no whitespace
UrlAt(t, i) ==
    LET n == ProtocolAt(t, i)
    IN  IF n > 0 /\ TextRun(t, i + n) > 0 THEN n + TextRun(t, i + n) ELSE 0

\* url_to_domain: the protocol removed, the part before the first "/",
\* without a leading "www."
url_to_domain(full_url) ==
    LET no_protocol == SubSeq(full_url, ProtocolAt(full_url, 1) + 1, Len(full_url))
        slashes == {i \in 1..Len(no_protocol) : no_protocol[i] = "/"}
        domain == IF slashes = {} THEN no_protocol
                  ELSE SubSeq(no_protocol, 1,
                              (CHOOSE i \in slashes : \A k \in slashes : i <= k) - 1)
    IN  IF startswith(domain, <<"w", "w", "w", ".">>)
        THEN SubSeq(domain, 5, Len(domain))
        ELSE domain

\* re.sub(url_pattern, url_to_domain, title), read from position i
RECURSIVE ReplaceUrls(_, _)
ReplaceUrls(t, i) ==
    IF i > Len(t) THEN <<>>
    ELSE IF UrlAt(t, i) > 0
         THEN url_to_domain(SubSeq(t, i, i + UrlAt(t, i) - 1))
                  \o ReplaceUrls(t, i + UrlAt(t, i))
    ELSE <<t[i]>> \o ReplaceUrls(t, i + 1)

\* the length of the match of delimiter_pattern at position i, 0 when
\* there is none: whitespace, one of the bar, the two dashes, the hyphen
\* and the colon, whitespace; or a colon and whitespace ("em-dash" and
\* "en-dash" stand for the one character each)
DelimiterAt(t, i) ==
    LET before == SpaceRun(t, i)
        after == SpaceRun(t, i + before + 1)
    IN  IF /\ before > 0
           /\ i + before <= Len(t)
           /\ t[i + before] \in {"|", "em-dash", "en-dash", "-", ":"}
           /\ after > 0
        THEN before + 1 + after
        ELSE IF i <= Len(t) /\ t[i] = ":" /\ SpaceRun(t, i + 1) > 0
             THEN 1 + SpaceRun(t, i + 1)
        ELSE 0

\* re.split(delimiter_pattern, processed_title), read from position i
\* with the piece collected since the last delimiter
RECURSIVE SplitFrom(_, _, _)
SplitFrom(t, i, piece) ==
    IF i > Len(t) THEN <<piece>>
    ELSE IF DelimiterAt(t, i) > 0
         THEN <<piece>> \o SplitFrom(t, i + DelimiterAt(t, i), <<>>)
    ELSE SplitFrom(t, i + 1, Append(piece, t[i]))

\* the loop over segments: stripped, kept when not empty and not
\* shorter than min_length
RECURSIVE cleaned_segments(_, _)
cleaned_segments(segments, min_length) ==
    IF segments = <<>> THEN <<>>
    ELSE LET seg == strip(Head(segments))
         IN  (IF seg # <<>> /\ Len(seg) >= min_length THEN <<seg>> ELSE <<>>)
                 \o cleaned_segments(Tail(segments), min_length)

\* mutant: duplicates recognised only when they are spelled alike
RECURSIVE unique_segments_exact(_, _)
unique_segments_exact(cleaned, seen) ==
    IF cleaned = <<>> THEN <<>>
    ELSE IF Head(cleaned) \in seen
         THEN unique_segments_exact(Tail(cleaned), seen)
    ELSE <<Head(cleaned)>>
             \o unique_segments_exact(Tail(cleaned), seen \cup {Head(cleaned)})

\* the loop over cleaned_segments with the set seen
RECURSIVE unique_segments(_, _)
unique_segments(cleaned, seen) ==
    IF cleaned = <<>> THEN <<>>
    ELSE IF lower(Head(cleaned)) \in seen
         THEN unique_segments(Tail(cleaned), seen)
    ELSE <<Head(cleaned)>>
             \o unique_segments(Tail(cleaned), seen \cup {lower(Head(cleaned))})

\* what the loops leave of the title before the combined entry is added
TitleCleaned(title, min_length) ==
    cleaned_segments(SplitFrom(ReplaceUrls(strip(title), 1), 1, <<>>), min_length)

parse_window_title_segments(title, min_length) ==
    IF title = <<>> \/ strip(title) = <<>> THEN <<>>
    ELSE LET unique == unique_segments(TitleCleaned(title, min_length), {})
         IN  IF Len(unique) > 1 THEN Append(unique, combined(unique)) ELSE unique

\* pieces of a title and what stands between them
TitlePieces ==
    {<<"a", "b">>, <<"a", "b", "a">>, <<"A", "B", "A">>, <<" ">>,
     <<"h", "t", "t", "p", ":", "/", "/", "w", "w", "w", ".", "a", "b", "a", "/", "b">>}

TitleJoints == {<<" ", "-", " ">>, <<":", " ">>, <<"-">>}

MaxPieces == 3

RECURSIVE TitlesOf(_)
TitlesOf(n) ==
    IF n = 0 THEN {<<>>}
    ELSE IF n = 1 THEN TitlePieces
    ELSE {t \o j \o q : t \in TitlesOf(n - 1), j \in TitleJoints, q \in TitlePieces}

SegmentTitles == UNION {TitlesOf(n) : n \in 0..MaxPieces}

MaxMinLength == 3

InitSegment ==
    /\ segmenter \in {[title |-> t, min_length |-> m, done |-> FALSE,
                       cleaned |-> <<>>, result |-> <<>>] :
                         t \in SegmentTitles, m \in 0..MaxMinLength}
    /\ loader = <<>>
    /\ matcher = <<>>
    /\ screens = <<ScreenA>>
    /\ active_profiles = <<>>
    /\ spot_dictionary = <<>>
    /\ disk = [k \in ProfileKeys |-> NoFile]
    /\ StoreObserversIdle
    /\ MigrateIdle
    /\ FailIdle
    /\ UiIdle

\* parse_window_title_segments(title, min_length)
Segment ==
    /\ ~segmenter.done
    /\ segmenter' = [segmenter EXCEPT
           !.done = TRUE,
           !.cleaned = TitleCleaned(segmenter.title, segmenter.min_length),
           !.result = parse_window_title_segments(segmenter.title, segmenter.min_length)]
    /\ UNCHANGED <<vars, migrateVars, failVars, uiVars, loader, matcher>>

NextSegment == Segment

SpecSegment == InitSegment /\ [][NextSegment]_segmenter

\* the fragments of the result: all of it but a combined entry
ResultFragments(result) ==
    IF Len(result) > 2 THEN SubSeq(result, 1, Len(result) - 1) ELSE result

\* the positions of a list whose entry no earlier position holds in
\* another or the same casing
FirstSeen(list) ==
    {i \in 1..Len(list) : \A k \in 1..(i - 1) : lower(list[k]) # lower(list[i])}

\* C20: the result holds no entry shorter than min_length and no two
\* entries that are equal when case is ignored; its fragments are the
\* first occurrences among the cleaned fragments of the title, in their
\* order and casing; an empty or all-whitespace title gives the empty
\* list.
C20_SegmentsCleaned ==
    segmenter.done =>
        LET result == segmenter.result
            fragments == ResultFragments(result)
            first == FirstSeen(segmenter.cleaned)
        IN  /\ \A i \in 1..Len(result) : Len(result[i]) >= segmenter.min_length
            /\ \A i, k \in 1..Len(result) :
                   i # k => lower(result[i]) # lower(result[k])
            /\ Len(fragments) = Cardinality(first)
            /\ \A i \in first :
                   fragments[Cardinality({k \in first : k <= i})] = segmenter.cleaned[i]
            /\ (\A i \in 1..Len(segmenter.title) : IsSpace(segmenter.title[i]))
                   => result = <<>>

\* a title of three fragments of which one is too short and one repeats
\* an earlier one in another casing
C20_Witness ==
    /\ segmenter.done
    /\ segmenter.min_length = 3
    /\ Len(segmenter.cleaned) = 2
    /\ segmenter.cleaned[1] # segmenter.cleaned[2]
    /\ Len(segmenter.result) = 1
    /\ segmenter.result[1] = segmenter.cleaned[1]

-----------------------------------------------------------------------------
(* Pattern suggestions (get_suggested_patterns, save_spot_window) *)

\* str.endswith(suffix)
endswith(s, suffix) ==
    /\ Len(s) >= Len(suffix)
    /\ \A j \in 1..Len(suffix) : s[Len(s) - Len(suffix) + j] = suffix[j]

file_extensions ==
    {<<".", "m", "d">>, <<".", "p", "y">>, <<".", "j", "s">>,
     <<".", "t", "s">>, <<".", "t", "x", "t">>, <<".", "j", "s", "o", "n">>,
     <<".", "c", "s", "v">>, <<".", "h", "t", "m", "l">>,
     <<".", "c", "s", "s">>, <<".", "x", "m", "l">>, <<".", "y", "m", "l">>,
     <<".", "y", "a", "m", "l">>, <<".", "s", "h">>, <<".", "b", "a", "t">>,
     <<".", "e", "x", "e">>, <<".", "a", "p", "p">>, <<".", "p", "d", "f">>,
     <<".", "d", "o", "c">>, <<".", "d", "o", "c", "x">>,
     <<".", "x", "l", "s">>, <<".", "x", "l", "s", "x">>,
     <<".", "p", "n", "g">>, <<".", "j", "p", "g">>,
     <<".", "j", "p", "e", "g">>, <<".", "g", "i", "f">>,
     <<".", "s", "v", "g">>}

\* [a-zA-Z0-9]
AlphaNumeric ==
    {UpperLetters[i] : i \in 1..Len(UpperLetters)}
        \cup {LowerLetters[i] : i \in 1..Len(LowerLetters)}
        \cup {"0", "1", "2", "3", "4", "5", "6", "7", "8", "9"}

\* [a-zA-Z0-9][-a-zA-Z0-9]* from position lo to position hi
IsLabel(text, lo, hi) ==
    /\ lo <= hi
    /\ text[lo] \in AlphaNumeric
    /\ \A i \in (lo + 1)..hi : text[i] \in AlphaNumeric \cup {"-"}

\* ^label(\.label)+$ : the text between two dots, before the first and
\* after the last is a label, and there is a dot ("$" also matches before
\* a final line break)
MatchesDomainShape(text) ==
    LET body == IF text # <<>> /\ text[Len(text)] = "\n"
                THEN SubSeq(text, 1, Len(text) - 1) ELSE text
        dots == {i \in 1..Len(body) : body[i] = "."}
        cuts == dots \cup {0, Len(body) + 1}
    IN  /\ dots # {}
        /\ \A a \in cuts : \A b \in cuts :
               (a < b /\ \A c \in cuts : ~(a < c /\ c < b)) => IsLabel(body, a + 1, b - 1)

is_domain(text) ==
    IF \E ext \in file_extensions : endswith(lower(text), ext) THEN FALSE
    ELSE IF \A i \in 1..Len(text) : text[i] # "." THEN FALSE
    ELSE MatchesDomainShape(text)

\* the loop of get_suggested_patterns from position i with the set
\* seen_patterns; a suggestion is its pattern and its type (the
\* description is a fixed text per type)
RECURSIVE SuggestionsFrom(_, _, _)
SuggestionsFrom(segments, i, seen_patterns) ==
    IF i > Len(segments) THEN <<>>
    ELSE LET seg == segments[i]
             is_combined == /\ Len(segments) > 1
                            /\ i = Len(segments)
                            /\ startswith(seg, <<"(", "?", "=">>)
         IN  IF lower(seg) \in seen_patterns
             THEN SuggestionsFrom(segments, i + 1, seen_patterns)
             ELSE <<[pattern |-> seg,
                     type |-> IF is_combined THEN "combined"
                              ELSE IF is_domain(seg) THEN "domain"
                              ELSE "segment"]>>
                      \o SuggestionsFrom(segments, i + 1, seen_patterns \cup {lower(seg)})

\* the default of the parameter min_length
DefaultMinLength == 3

get_suggested_patterns(title) ==
    SuggestionsFrom(parse_window_title_segments(title, DefaultMinLength), 1, {})

\* pending_suggestions as save_spot_window leaves it: the suggestions of
\* the title, after the application's when there is an application name
PendingSuggestions(title, current_app) ==
    IF current_app # <<>>
    THEN <<[pattern |-> <<"a", "p", "p", ":">> \o current_app, type |-> "app"]>>
             \o get_suggested_patterns(title)
    ELSE get_suggested_patterns(title)

\* titles with a file name and a domain, a line break inside a fragment,
\* a fragment that begins like an application pattern, a fragment that
\* begins like a lookahead, and a URL next to its own domain
FileTitle == <<"x", ".", "p", "y", " ", "-", " ", "a", ".", "b", "x">>

LineBreakTitle == <<"a", "b", "a", "\n", "a", "b", " ", "-", " ", "z", "z", "z">>

AppLikeTitle == <<"a", "p", "p", ":", "z", " ", "-", " ", "a", "b", "a">>

LookaheadLikeTitle == <<"(", "?", "=", ".", "*", "a", "\\", ".", ")", " ", "-", " ", "z", "z", "z">>

DomainTitle ==
    <<"h", "t", "t", "p", "s", ":", "/", "/", "w", "w", "w", ".", "a", "b", ".", "x", "z",
      "/", "p", " ", "-", " ", "A", "B", ".", "X", "Z">>

SuggestTitles ==
    SegmentTitles \cup {FileTitle, LineBreakTitle, AppLikeTitle, LookaheadLikeTitle, DomainTitle}

\* ui.active_window().app.name: none, or a name
AppNames == {<<>>, <<"X">>}

InitSuggest ==
    /\ segmenter \in {[title |-> t, app |-> a, done |-> FALSE, cleaned |-> <<>>,
                       segments |-> <<>>, suggestions |-> <<>>, pending |-> <<>>,
                       raised |-> {}, unmatched |-> {}] :
                         t \in SuggestTitles, a \in AppNames}
    /\ loader = <<>>
    /\ matcher = <<>>
    /\ screens = <<ScreenA>>
    /\ active_profiles = <<>>
    /\ spot_dictionary = <<>>
    /\ disk = [k \in ProfileKeys |-> NoFile]
    /\ StoreObserversIdle
    /\ MigrateIdle
    /\ FailIdle
    /\ UiIdle

\* get_suggested_patterns(title) and the suggestions save_spot_window
\* offers for the window; then, for each offered pattern, what
\* spot_matches_current_window says of a spot that holds it while that
\* window is still the current one
Suggest ==
    /\ ~segmenter.done
    /\ LET win == Window(segmenter.title, segmenter.app)
           pending == PendingSuggestions(segmenter.title, segmenter.app)
           raises == {i \in 1..Len(pending) :
                         spot_matches_current_window_raises(Spot(1, 10, pending[i].pattern))}
       IN  segmenter' = [segmenter EXCEPT
               !.done = TRUE,
               !.cleaned = TitleCleaned(segmenter.title, DefaultMinLength),
               !.segments = parse_window_title_segments(segmenter.title, DefaultMinLength),
               !.suggestions = get_suggested_patterns(segmenter.title),
               !.pending = pending,
               !.raised = raises,
               !.unmatched = {i \in 1..Len(pending) \ raises :
                                 ~spot_matches_current_window(Spot(1, 10, pending[i].pattern), win)}]
    /\ UNCHANGED <<vars, migrateVars, failVars, uiVars, loader, matcher>>

NextSuggest == Suggest

SpecSuggest == InitSuggest /\ [][NextSuggest]_segmenter

\* the group the combined entry holds for one segment
GroupOf(seg) == <<"(", "?", "=", ".", "*">> \o re_escape(seg) \o <<")">>

C26_OfferedPatternsMatch ==
    segmenter.done => (segmenter.raised = {} /\ segmenter.unmatched = {})

-----------------------------------------------------------------------------
(* Profile keys of two machines *)

\* what socket.gethostname() returns on a machine
Hostnames ==
    {<<"h">>, <<"g">>, <<"h", "g">>, <<"h", ".", "l">>, <<"h", ".", "m">>,
     <<"g", ".", "l">>, <<"h", ".", "l", ".", "m">>, <<".", "h">>}

\* the displays of a machine
HostScreens == {<<ScreenA>>, <<ScreenA, ScreenB>>, <<ScreenB, ScreenA>>}

InitHost ==
    /\ resolver \in {[first |-> a, second |-> b, screens |-> scr, screen_index |-> i,
                      done |-> FALSE, keys |-> <<>>] :
                        a \in Hostnames, b \in Hostnames, scr \in HostScreens,
                        i \in 0..MaxScreenIndex}
    /\ facade = <<>>
    /\ mover = <<>>
    /\ screens = <<ScreenA>>
    /\ active_profiles = <<>>
    /\ spot_dictionary = <<>>
    /\ disk = [k \in ProfileKeys |-> NoFile]
    /\ StoreObserversIdle
    /\ MigrateIdle
    /\ FailIdle
    /\ PureIdle

\* get_screen_profile(screen_index) on each of the two machines, which
\* have the same displays
Resolve ==
    /\ ~resolver.done
    /\ resolver' = [resolver EXCEPT
           !.done = TRUE,
           !.keys = <<ScreenProfileOn(resolver.first, resolver.screens, resolver.screen_index),
                      ScreenProfileOn(resolver.second, resolver.screens, resolver.screen_index)>>]
    /\ UNCHANGED <<vars, migrateVars, failVars, pureVars, facade, mover>>

NextHost == Resolve

SpecHost == InitHost /\ [][NextHost]_resolver

\* the number of characters of a hostname before its first "."
NameLength(hostname) ==
    CHOOSE n \in 0..Len(hostname) :
        /\ \A i \in 1..n : hostname[i] # "."
        /\ n < Len(hostname) => hostname[n + 1] = "."

\* the hostnames are the same up to their first "."
SameShortName(a, b) ==
    /\ NameLength(a) = NameLength(b)
    /\ \A i \in 1..NameLength(a) : a[i] = b[i]

\* C23, as stated: the same display on two machines with different
\* hostnames never gets the same profile key.
C23_DifferentHostsDifferentKeys ==
    (resolver.done /\ resolver.first # resolver.second)
        => resolver.keys[1] # resolver.keys[2]

\* C23, amended: the same display on two machines whose hostnames differ
\* before their first "." never gets the same profile key.
C23_DifferentShortNamesDifferentKeys ==
    (resolver.done /\ ~SameShortName(resolver.first, resolver.second))
        => resolver.keys[1] # resolver.keys[2]

\* two machines with domain suffixes and different names, resolved
C23_Witness ==
    /\ resolver.done
    /\ resolver.first = <<"h", ".", "l">>
    /\ resolver.second = <<"g", ".", "l">>
    /\ resolver.keys[1] # resolver.keys[2]

-----------------------------------------------------------------------------
(* Window-specific spots after clear_spot_dictionary_window *)

\* C24: after clear_spot_dictionary_window under a title and an
\* application, a window-only lookup of any name under the same title and
\* application finds nothing, whatever the kinds of the stored patterns.
C24_NoWindowSpotLeft ==
    [][last'.op = "clear_spot_dictionary_window" =>
          \A name \in Names : \A current_app \in Apps :
              get_spot_coords(active_profiles', spot_dictionary', name, TRUE,
                              Window(last'.title, current_app)) = NotFound
      ]_vars

-----------------------------------------------------------------------------
(* Write-through: the store with an unchanged display configuration *)

\* the pattern save_spot_window offers for an application whose name
\* ends in a blank
PaddedAppPattern == <<"a", "p", "p", ":", "X", " ">>

WritePatterns == {None, <<"a", "b">>, PaddedAppPattern}

PutWrite ==
    \E name \in Names, pt \in Points, window_pattern \in WritePatterns :
        add_spot(name, pt[1], pt[2], window_pattern, {})

NextWrite ==
    \/ PutWrite /\ UNCHANGED notStore
    \/ Remove /\ UNCHANGED notStore
    \/ clear_spot_dictionary /\ UNCHANGED notStore
    \/ ClearWindow /\ UNCHANGED notStore
    \/ reload_spots /\ UNCHANGED notStore

SpecWrite == InitFail /\ [][NextWrite]_vars

\* windows of the application named "X " and of the application "X"
WriteWindows == {Window(t, a) : t \in Titles, a \in {<<"X", " ">>, <<"X">>}}

\* C25: with the displays unchanged and every write succeeding, what a
\* reload would read for every active profile is its in-memory mapping,
\* and every lookup returns after the reload what it returns before.
C25_WriteThrough ==
    LET r == load_all_spots(screens, disk)
    IN  /\ \A i \in 1..Len(active_profiles) :
               r.spot_dictionary[active_profiles[i]]
                   = ProfileSpots(spot_dictionary, active_profiles[i])
        /\ \A name \in Names : \A window_only \in BOOLEAN : \A win \in WriteWindows :
               get_spot_coords(r.active_profiles, r.spot_dictionary, name, window_only, win)
                   = Find(name, window_only, win)

-----------------------------------------------------------------------------
(* Pattern selection: save_spot_window, confirm, cancel *)

\* pending_spot_name, pending_spot_coords, pending_suggestions and
\* pending_spot_screen_index; selecting: ctx.tags holds
\* user.screen_spots_selecting; showing: gui_select_window_pattern is
\* shown; cursor: actions.mouse_x(), actions.mouse_y(); slow: the setting
\* user.screen_spots_slow_move_enabled; events: the mouse events the last
\* action issued; op, name, choice, win: the last action and its inputs;
\* notified: what the last action told the user with app.notify
NoSelection ==
    [pending_spot_name |-> None, pending_spot_coords |-> None,
     pending_suggestions |-> <<>>, pending_spot_screen_index |-> {},
     selecting |-> FALSE, showing |-> FALSE]

NewFacade(cursor, slow) ==
    NoSelection @@ [cursor |-> cursor, slow |-> slow, events |-> <<>>,
                    op |-> "initialize", name |-> None, choice |-> 0,
                    win |-> Window(<<>>, <<>>), notified |-> "nothing"]

Done(f, op, name, choice, win) ==
    [f EXCEPT !.op = op, !.name = name, !.choice = choice, !.win = win, !.events = <<>>,
              !.notified = "nothing"]

\* add_spot as the facade calls it: the dictionary and the file of the
\* profile
AddSpotStore(name, x, y, window_pattern, screen_index) ==
    LET profile == add_spot_profile(screens, x, y, screen_index)
        dict == add_spot_dictionary(spot_dictionary, profile, name, x, y, window_pattern)
    IN  /\ spot_dictionary' = dict
        /\ disk' = save_spots_for_profile(dict, disk, profile)

\* mutant: a cancel that keeps the pending values
spot_cancel_window_selection_keep(f) ==
    [f EXCEPT !.selecting = FALSE, !.showing = FALSE]

\* spot_cancel_window_selection(): the facade it leaves
spot_cancel_window_selection(f) ==
    [f EXCEPT !.pending_spot_name = None, !.pending_spot_coords = None,
              !.pending_suggestions = <<>>, !.pending_spot_screen_index = {},
              !.selecting = FALSE, !.showing = FALSE]

\* mutant: whatever the choice, the first suggestion
_get_pattern_from_choice_first(pending_suggestions, choice) ==
    IF choice = 0 \/ pending_suggestions = <<>> THEN None
    ELSE pending_suggestions[1].pattern

_get_pattern_from_choice(pending_suggestions, choice) ==
    IF choice = 0 THEN None ELSE pending_suggestions[choice].pattern

save_spot_window(spot_key, win) ==
    LET x == facade.cursor[1]
        y == facade.cursor[2]
        screen_index == get_screen_for_point(screens, x, y)
        suggestions == PendingSuggestions(win.title, win.app)
        pending == [Done(facade, "save_spot_window", None, 0, facade.win) EXCEPT
                        !.pending_spot_coords = <<x, y>>,
                        !.pending_spot_name = spot_key,
                        !.pending_spot_screen_index = {screen_index},
                        !.pending_suggestions = suggestions]
    IN  IF suggestions = <<>>
        THEN /\ AddSpotStore(spot_key, x, y, None, {screen_index})
             /\ facade' = [pending EXCEPT !.notified = "Saved global spot (no window info)"]
        ELSE /\ facade' = [pending EXCEPT !.selecting = TRUE, !.showing = TRUE]
             /\ UNCHANGED <<spot_dictionary, disk>>

spot_confirm_window_pattern(choice) ==
    LET f == Done(facade, "spot_confirm_window_pattern", None, choice, facade.win)
    IN  IF facade.pending_spot_name = None \/ facade.pending_spot_coords = None
        THEN /\ facade' = spot_cancel_window_selection(f)
             /\ UNCHANGED <<spot_dictionary, disk>>
        ELSE IF choice < 0 \/ choice > Len(facade.pending_suggestions)
        THEN /\ facade' = [f EXCEPT !.notified = "Invalid choice"]
             /\ UNCHANGED <<spot_dictionary, disk>>
        ELSE /\ AddSpotStore(facade.pending_spot_name,
                             facade.pending_spot_coords[1], facade.pending_spot_coords[2],
                             _get_pattern_from_choice(facade.pending_suggestions, choice),
                             facade.pending_spot_screen_index)
             /\ facade' = spot_cancel_window_selection([f EXCEPT !.notified = "Saved spot"])

spot_confirm_custom_pattern(text) ==
    LET f == Done(facade, "spot_confirm_custom_pattern", None, 0, facade.win)
        pattern == strip(text)
    IN  IF facade.pending_spot_name = None \/ facade.pending_spot_coords = None
        THEN /\ facade' = spot_cancel_window_selection(f)
             /\ UNCHANGED <<spot_dictionary, disk>>
        ELSE /\ AddSpotStore(facade.pending_spot_name,
                             facade.pending_spot_coords[1], facade.pending_spot_coords[2],
                             IF pattern = <<>> THEN None ELSE pattern,
                             facade.pending_spot_screen_index)
             /\ facade' = spot_cancel_window_selection([f EXCEPT !.notified = "Saved spot"])

\* windows: no title and no application; a title and an application
SelectWindows == {Window(<<>>, <<>>), Window(<<"a", "b", "a">>, <<"X">>)}

\* what the user types as a custom pattern
CustomPatterns == {<<>>, <<" ", "a", "b", "a">>}

\* the choices a confirm is called with: from -1 to MaxChoice
MaxChoice == 3

Choices == (0 - 1)..MaxChoice

InitSelect ==
    /\ screens = <<ScreenA, ScreenB>>
    /\ disk = [k \in ProfileKeys |-> NoFile]
    /\ active_profiles = load_all_spots(screens, disk).active_profiles
    /\ spot_dictionary = load_all_spots(screens, disk).spot_dictionary
    /\ StoreObserversIdle
    /\ facade \in {NewFacade(c, FALSE) : c \in Points}
    /\ resolver = <<>>
    /\ mover = <<>>
    /\ MigrateIdle
    /\ FailIdle
    /\ PureIdle

SaveSpotWindow ==
    \E spot_key \in Names, win \in SelectWindows : save_spot_window(spot_key, win)

Confirm == \E choice \in Choices : spot_confirm_window_pattern(choice)

ConfirmCustom == \E text \in CustomPatterns : spot_confirm_custom_pattern(text)

Cancel ==
    /\ facade' = spot_cancel_window_selection(
                     Done(facade, "spot_cancel_window_selection", None, 0, facade.win))
    /\ UNCHANGED <<spot_dictionary, disk>>

\* the user moves the mouse
CursorMoves ==
    /\ \E c \in Points \ {facade.cursor} :
           facade' = [Done(facade, "cursor", None, 0, facade.win) EXCEPT !.cursor = c]
    /\ UNCHANGED <<spot_dictionary, disk>>

selectFrame ==
    <<screens, active_profiles, last, cleared, stale_run, migrateVars, failVars, pureVars,
      resolver, mover>>

NextSelect ==
    \/ SaveSpotWindow /\ UNCHANGED selectFrame
    \/ Confirm /\ UNCHANGED selectFrame
    \/ ConfirmCustom /\ UNCHANGED selectFrame
    \/ Cancel /\ UNCHANGED selectFrame
    \/ CursorMoves /\ UNCHANGED selectFrame

SpecSelect == InitSelect /\ [][NextSelect]_<<vars, facade>>

\* a selection is pending: the pending name and coordinates are set
Pending(f) == f.pending_spot_name # None /\ f.pending_spot_coords # None

\* the profile of the screen index the pending selection holds
PendingProfile(f) ==
    get_screen_profile(screens, CHOOSE i \in f.pending_spot_screen_index : TRUE)

\* C27: a confirm with a valid choice during a pending selection saves
\* one spot only: under the pending name, with the coordinates and in the
\* profile of the screen captured by save_spot_window, global for choice
\* 0 and otherwise with the pattern of the suggestion displayed at that
\* number; the selection is cleared.
C27_ConfirmSavesPending ==
    [][(/\ facade'.op = "spot_confirm_window_pattern"
        /\ Pending(facade)
        /\ facade'.choice \in 0..Len(facade.pending_suggestions))
          => LET profile == PendingProfile(facade)
                 pattern == IF facade'.choice = 0 THEN None
                            ELSE facade.pending_suggestions[facade'.choice].pattern
                 spot == Spot(facade.pending_spot_coords[1],
                              facade.pending_spot_coords[2], pattern)
             IN  /\ DOMAIN spot_dictionary' = DOMAIN spot_dictionary \cup {profile}
                 /\ spot_dictionary'[profile]
                        = DictSet(ProfileSpots(spot_dictionary, profile),
                                  facade.pending_spot_name, spot)
                 /\ \A q \in DOMAIN spot_dictionary \ {profile} :
                        spot_dictionary'[q] = spot_dictionary[q]
                 /\ Persisted(disk'[profile], spot_dictionary'[profile])
                 /\ \A q \in ProfileKeys \ {profile} : disk'[q] = disk[q]
                 /\ ~Pending(facade')
                 /\ facade'.pending_suggestions = <<>>
                 /\ ~facade'.selecting /\ ~facade'.showing
      ]_<<vars, facade>>

\* the second displayed suggestion, the title's, was chosen after the
\* cursor had left the captured position, and saved there
C27_Witness ==
    /\ facade.op = "spot_confirm_window_pattern"
    /\ facade.notified = "Saved spot"
    /\ facade.choice = 2
    /\ \E p \in DOMAIN spot_dictionary : \E n \in DOMAIN spot_dictionary[p] :
           /\ spot_dictionary[p][n].window_pattern = <<"a", "b", "a">>
           /\ spot_dictionary[p][n].coords # facade.cursor

\* C28: a confirm with no selection pending changes neither store nor
\* files; a confirm with a choice below 0 or above the number of
\* suggestions changes neither and keeps the selection pending; a cancel
\* changes neither and clears the selection.
C28_ConfirmNeedsPendingAndRange ==
    [][/\ (facade'.op = "spot_confirm_window_pattern" /\ ~Pending(facade))
              => UNCHANGED <<spot_dictionary, disk>>
       /\ (/\ facade'.op = "spot_confirm_window_pattern"
           /\ Pending(facade)
           /\ facade'.choice \notin 0..Len(facade.pending_suggestions))
              => /\ UNCHANGED <<spot_dictionary, disk>>
                 /\ Pending(facade')
                 /\ facade'.pending_spot_name = facade.pending_spot_name
                 /\ facade'.pending_spot_coords = facade.pending_spot_coords
                 /\ facade'.pending_suggestions = facade.pending_suggestions
       /\ facade'.op = "spot_cancel_window_selection"
              => /\ UNCHANGED <<spot_dictionary, disk>>
                 /\ ~Pending(facade')
                 /\ facade'.pending_suggestions = <<>>
      ]_<<vars, facade>>

\* a confirm with a choice above the number of suggestions has left the
\* selection pending and the store empty
C28_Witness ==
    /\ facade.op = "spot_confirm_window_pattern"
    /\ facade.notified = "Invalid choice"
    /\ facade.choice = 3
    /\ Pending(facade)
    /\ Len(facade.pending_suggestions) = 2
    /\ \A p \in DOMAIN spot_dictionary : spot_dictionary[p] = EmptyDict

\* C29: a selection is pending exactly when the selecting tag is active
\* and the prompt is shown.
C29_PendingIffSelecting ==
    Pending(facade) <=> (facade.selecting /\ facade.showing)

-----------------------------------------------------------------------------
(* click_spot: move, click, move back *)

\* a mouse event: actions.mouse_move and ctrl.mouse_click, or, in slow
\* mode, the target handed to the SlowMover
Event(kind, to) == [kind |-> kind, to |-> to]

\* _move_mouse_to_coords(coords): the facade it leaves
_move_mouse_to_coords(f, coords) ==
    IF f.slow
    THEN [f EXCEPT !.events = Append(@, Event("slow_mouse_move", coords))]
    ELSE [f EXCEPT !.events = Append(@, Event("mouse_move", coords)), !.cursor = coords]

\* mutant: the cursor goes back before the click
_click_and_return_first(f, current) ==
    IF f.slow
    THEN [f EXCEPT !.events = @ \o <<Event("slow_mouse_move", current),
                                     Event("slow_mouse_click", None)>>]
    ELSE [f EXCEPT !.events = @ \o <<Event("mouse_move", current),
                                     Event("mouse_click", current)>>,
                   !.cursor = current]

\* _click_and_return(current_x, current_y): the facade it leaves
_click_and_return(f, current) ==
    IF f.slow
    THEN [f EXCEPT !.events = @ \o <<Event("slow_mouse_click", None),
                                     Event("slow_mouse_move", current)>>]
    ELSE [f EXCEPT !.events = @ \o <<Event("mouse_click", f.cursor),
                                     Event("mouse_move", current)>>,
                   !.cursor = current]

\* move_to_spot(spot_key) under the window: the facade it leaves and
\* whether the cursor was moved
move_to_spot(f, spot_key, win) ==
    LET found == get_spot_coords(active_profiles, spot_dictionary, spot_key, FALSE, win)
    IN  IF found.coords = None THEN [facade |-> f, was_moved |-> FALSE]
        ELSE [facade |-> _move_mouse_to_coords(f, found.coords), was_moved |-> TRUE]

click_spot(spot_key, win) ==
    LET current == facade.cursor
        moved == move_to_spot(Done(facade, "click_spot", spot_key, 0, win), spot_key, win)
    IN  /\ facade' = IF moved.was_moved THEN _click_and_return(moved.facade, current)
                     ELSE moved.facade
        /\ UNCHANGED <<spot_dictionary, disk>>

InitClick ==
    /\ screens = <<ScreenA, ScreenB>>
    /\ disk = [k \in ProfileKeys |-> NoFile]
    /\ active_profiles = load_all_spots(screens, disk).active_profiles
    /\ spot_dictionary = load_all_spots(screens, disk).spot_dictionary
    /\ StoreObserversIdle
    /\ facade \in {NewFacade(c, slow) : c \in Points, slow \in BOOLEAN}
    /\ resolver = <<>>
    /\ mover = <<>>
    /\ MigrateIdle
    /\ FailIdle
    /\ PureIdle

\* save_spot and the other ways a spot gets into the store
PutClick ==
    /\ \E name \in Names, pt \in Points, window_pattern \in Patterns :
           AddSpotStore(name, pt[1], pt[2], window_pattern, {})
    /\ facade' = Done(facade, "add_spot", None, 0, facade.win)

ClickSpot == \E spot_key \in Names, win \in Windows : click_spot(spot_key, win)

\* the setting user.screen_spots_slow_move_enabled is changed
SettingChanges ==
    /\ facade' = [Done(facade, "setting", None, 0, facade.win) EXCEPT !.slow = ~facade.slow]
    /\ UNCHANGED <<spot_dictionary, disk>>

NextClick ==
    \/ PutClick /\ UNCHANGED selectFrame
    \/ ClickSpot /\ UNCHANGED selectFrame
    \/ CursorMoves /\ UNCHANGED selectFrame
    \/ SettingChanges /\ UNCHANGED selectFrame

SpecClick == InitClick /\ [][NextClick]_<<vars, facade>>

\* C22: click_spot of a name the lookup finds issues a move to the spot,
\* one click and a move back to where the cursor was before the call, in
\* this order (in slow mode these three are handed to the SlowMover in
\* this order); of a name the lookup does not find, it issues nothing.
C22_ClickMovesClicksReturns ==
    [][facade'.op = "click_spot" =>
          LET found == Find(facade'.name, FALSE, facade'.win)
              events == facade'.events
          IN  IF found = NotFound THEN events = <<>> /\ facade'.cursor = facade.cursor
              ELSE /\ Len(events) = 3
                   /\ events[1].kind = (IF facade.slow THEN "slow_mouse_move" ELSE "mouse_move")
                   /\ events[1].to = found.coords
                   /\ events[2].kind = (IF facade.slow THEN "slow_mouse_click" ELSE "mouse_click")
                   /\ ~facade.slow => events[2].to = found.coords
                   /\ events[3].kind = events[1].kind
                   /\ events[3].to = facade.cursor
      ]_<<vars, facade>>

\* a click on a spot away from the cursor, in slow mode
C22_Witness ==
    /\ facade.op = "click_spot"
    /\ facade.slow
    /\ Len(facade.events) = 3
    /\ facade.events[1].to # facade.events[3].to

-----------------------------------------------------------------------------
(* SlowMover (src/SlowMover.py) *)

Abs(n) == IF n < 0 THEN 0 - n ELSE n

\* copysign(magnitude, sign): the magnitude of the first with the sign of
\* the second, a zero counting as positive
copysign(magnitude, sign) == IF sign < 0 THEN 0 - Abs(magnitude) ELSE Abs(magnitude)

_clamp_distance(distance, max_distance) ==
    IF Abs(distance) <= max_distance THEN distance
    ELSE copysign(max_distance, distance)

\* a target: a tuple (x, y) or the string 'click'
MoveTarget(x, y) == [kind |-> "move", to |-> <<x, y>>]

ClickTarget == [kind |-> "click", to |-> None]

\* _calculate_movement(target_x, target_y) with the cursor at current
_calculate_movement(current, max_dist, target_x, target_y) ==
    LET x_dist == _clamp_distance(target_x - current[1], max_dist)
        y_dist == _clamp_distance(target_y - current[2], max_dist)
    IN  [new |-> <<current[1] + x_dist, current[2] + y_dist>>,
         x_dist |-> x_dist, y_dist |-> y_dist]

\* mutant: the target stays queued when the cursor is on it
small_movement_keeps(m, target_x, target_y) ==
    [m EXCEPT !.cursor = _calculate_movement(m.cursor, m.max_dist, target_x, target_y).new,
              !.did = "moved"]

\* small_movement(target_x, target_y): the mover it leaves
small_movement(m, target_x, target_y) ==
    LET c == _calculate_movement(m.cursor, m.max_dist, target_x, target_y)
    IN  IF c.x_dist = 0 /\ c.y_dist = 0
        THEN [m EXCEPT !.targets = Tail(@), !.did = "removed"]
        ELSE [m EXCEPT !.cursor = c.new, !.did = "moved"]

\* _process_click_target(): the mover it leaves
_process_click_target(m) ==
    [m EXCEPT !.clicks = @ + 1, !.clicked_at = m.cursor, !.targets = Tail(@),
              !.did = "clicked"]

\* tick(): the mover it leaves; stop() when there is no target
tick(m) ==
    IF m.targets = <<>> THEN [m EXCEPT !.job = FALSE, !.did = "stopped"]
    ELSE LET next_target == Head(m.targets)
         IN  IF next_target.kind = "move"
             THEN small_movement(m, next_target.to[1], next_target.to[2])
             ELSE _process_click_target(m)

\* _start_if_needed(): start() schedules the interval job
_start_if_needed(m) == IF ~m.job THEN [m EXCEPT !.job = TRUE] ELSE m

slowly_move_to(m, x, y) ==
    _start_if_needed([m EXCEPT !.targets = Append(@, MoveTarget(x, y)),
                               !.submitted = @ + 1, !.did = "submitted"])

slowly_click(m) ==
    _start_if_needed([m EXCEPT !.targets = Append(@, ClickTarget),
                               !.submitted = @ + 1, !.click_targets = @ + 1,
                               !.did = "submitted"])

\* the largest value of the setting screen_spots_slow_move_distance; the
\* least is -1
MaxDistance == 2

Distances == (0 - 1)..MaxDistance

\* where the cursor is put and where targets lie
MoverPoints == {<<0, 0>>, <<2, 0>>, <<1, 1>>}

\* the number of targets submitted in a behaviour
MaxSubmitted == 3

\* job: an interval job is scheduled; clicks: the clicks performed;
\* clicked_at: where the last one was; click_targets: the click targets
\* submitted; did: what the last step did
InitMover ==
    /\ mover \in {[job |-> FALSE, targets |-> <<>>, cursor |-> c, max_dist |-> d,
                   submitted |-> 0, click_targets |-> 0, clicks |-> 0,
                   clicked_at |-> None, did |-> "nothing"] :
                     c \in MoverPoints, d \in Distances}
    /\ resolver = <<>>
    /\ facade = <<>>
    /\ screens = <<ScreenA>>
    /\ active_profiles = <<>>
    /\ spot_dictionary = <<>>
    /\ disk = [k \in ProfileKeys |-> NoFile]
    /\ StoreObserversIdle
    /\ MigrateIdle
    /\ FailIdle
    /\ PureIdle

moverFrame == <<vars, migrateVars, failVars, pureVars, resolver, facade>>

SlowMouseMove ==
    /\ mover.submitted < MaxSubmitted
    /\ \E t \in MoverPoints : mover' = slowly_move_to(mover, t[1], t[2])
    /\ UNCHANGED moverFrame

SlowMouseClick ==
    /\ mover.submitted < MaxSubmitted
    /\ mover' = slowly_click(mover)
    /\ UNCHANGED moverFrame

\* cron runs the interval job
Tick ==
    /\ mover.job
    /\ mover' = tick(mover)
    /\ UNCHANGED moverFrame

\* the user moves the mouse between two ticks
UserMoves ==
    /\ \E c \in MoverPoints \ {mover.cursor} :
           mover' = [mover EXCEPT !.cursor = c, !.did = "user"]
    /\ UNCHANGED moverFrame

NextMover ==
    \/ SlowMouseMove
    \/ SlowMouseClick
    \/ Tick
    \/ UserMoves

SpecMover == InitMover /\ [][NextMover]_mover

\* C30: targets leave the queue at its head only and enter it at its end;
\* a click is performed only by a tick that finds a click target at the
\* head, once, and removes it; a move target is removed only by a tick
\* that finds the cursor on it, whatever the distance setting.
C30_InOrderAndOnTarget ==
    [][/\ \/ mover'.targets = mover.targets
          \/ /\ mover'.did = "submitted"
             /\ Len(mover'.targets) = Len(mover.targets) + 1
             /\ SubSeq(mover'.targets, 1, Len(mover.targets)) = mover.targets
          \/ /\ mover'.did \in {"removed", "clicked"}
             /\ mover.targets # <<>>
             /\ mover'.targets = Tail(mover.targets)
       /\ mover'.clicks # mover.clicks
              => /\ mover.targets # <<>>
                 /\ Head(mover.targets) = ClickTarget
                 /\ mover'.targets = Tail(mover.targets)
                 /\ mover'.clicks = mover.clicks + 1
       /\ (mover'.did \in {"removed", "clicked", "moved"} /\ Head(mover.targets) = ClickTarget)
              => mover'.clicks = mover.clicks + 1
       /\ mover'.did = "removed" => mover.cursor = Head(mover.targets).to
      ]_mover

-----------------------------------------------------------------------------
(* SlowMover: the host's calls and the timer's ticks, statement by statement *)

Threads == {"host", "timer"}

\* threading.RLock(): its owner and how many times the owner holds it
FreeLock == [owner |-> "nobody", count |-> 0]

\* mutant: a lock that excludes nobody
can_acquire_always(lock, thread) == TRUE

\* a thread enters `with self.lock` when the lock is free or its own
can_acquire(lock, thread) == lock.owner \in {"nobody", thread}

acquire(lock, thread) == [owner |-> thread, count |-> lock.count + 1]

release(lock) ==
    IF lock.count <= 1 THEN FreeLock ELSE [lock EXCEPT !.count = @ - 1]

\* cron.cancel(job): the jobs cron still runs; job is {} for None
cron_cancel(scheduled, job) == scheduled \ job

\* cron.interval('16ms', self.tick): the identifier of the new job
cron_interval(scheduled) ==
    CHOOSE i \in 1..(Cardinality(scheduled) + 1) :
        /\ i \notin scheduled
        /\ \A j \in 1..(i - 1) : j \in scheduled

\* the target a thread of the host submits: MoveTarget(1, 1) or ClickTarget
ThreadTargets == {MoveTarget(1, 1), ClickTarget}

\* pc: where each thread stands; call: the argument of the host's call;
\* scheduled: the interval jobs cron runs; sent: the targets submitted, in
\* order; processed: the targets the ticks removed, in order
InitThreads ==
    /\ mover = [job |-> {}, targets |-> <<>>, cursor |-> <<0, 0>>, max_dist |-> 1,
                submitted |-> 0, click_targets |-> 0, clicks |-> 0,
                clicked_at |-> None, did |-> "nothing",
                lock |-> FreeLock, scheduled |-> {},
                pc |-> [t \in Threads |-> "idle"], call |-> ClickTarget,
                sent |-> <<>>, processed |-> <<>>]
    /\ resolver = <<>>
    /\ facade = <<>>
    /\ screens = <<ScreenA>>
    /\ active_profiles = <<>>
    /\ spot_dictionary = <<>>
    /\ disk = [k \in ProfileKeys |-> NoFile]
    /\ StoreObserversIdle
    /\ MigrateIdle
    /\ FailIdle
    /\ PureIdle

\* the thread moves from one statement to another
Goes(thread, from, to, m) ==
    /\ mover.pc[thread] = from
    /\ mover' = [m EXCEPT !.pc[thread] = to]
    /\ UNCHANGED moverFrame

\* `with self.lock:` of the method the thread is entering
With(thread, from, to) ==
    /\ can_acquire(mover.lock, thread)
    /\ Goes(thread, from, to, [mover EXCEPT !.lock = acquire(@, thread)])

\* the end of a `with self.lock:` block
EndWith(thread, from, to) ==
    Goes(thread, from, to, [mover EXCEPT !.lock = release(@)])

\* the host calls slow_mouse_move(x, y) or slow_mouse_click()
HostCalls ==
    /\ mover.submitted < MaxSubmitted
    /\ \E target \in ThreadTargets :
           Goes("host", "idle", "slowly:with",
                [mover EXCEPT !.call = target, !.submitted = @ + 1])

SlowlyWith == With("host", "slowly:with", "slowly:append")

\* self.targets.append(...)
SlowlyAppend ==
    Goes("host", "slowly:append", "_start_if_needed",
         [mover EXCEPT !.targets = Append(@, mover.call),
                       !.sent = Append(@, mover.call), !.did = "submitted"])

\* if self.job is None: self.start()
StartIfNeeded ==
    Goes("host", "_start_if_needed",
         IF mover.job = {} THEN "start:with" ELSE "slowly:exit", mover)

StartWith == With("host", "start:with", "start:cancel")

StartCancel ==
    Goes("host", "start:cancel", "start:interval",
         [mover EXCEPT !.scheduled = cron_cancel(@, mover.job)])

StartInterval ==
    LET job == cron_interval(mover.scheduled)
    IN  Goes("host", "start:interval", "start:exit",
             [mover EXCEPT !.job = {job}, !.scheduled = @ \cup {job}])

StartExit == EndWith("host", "start:exit", "slowly:exit")

SlowlyExit == EndWith("host", "slowly:exit", "idle")

\* cron calls self.tick for a job it runs
TimerFires ==
    /\ mover.scheduled # {}
    /\ Goes("timer", "idle", "tick:with", mover)

TickWith == With("timer", "tick:with", "tick:test")

\* if not self.targets: self.stop(); return
TickTest ==
    Goes("timer", "tick:test",
         IF mover.targets = <<>> THEN "stop:with" ELSE "tick:process", mover)

\* next_target = self.targets[0] and its processing
TickProcess ==
    /\ mover.targets # <<>>
    /\ LET m == tick(mover)
       IN  Goes("timer", "tick:process", "tick:exit",
                IF m.targets = mover.targets THEN m
                ELSE [m EXCEPT !.processed = Append(@, Head(mover.targets))])

StopWith == With("timer", "stop:with", "stop:cancel")

StopCancel ==
    Goes("timer", "stop:cancel", "stop:assign",
         [mover EXCEPT !.scheduled = cron_cancel(@, mover.job)])

StopAssign ==
    Goes("timer", "stop:assign", "stop:exit",
         [mover EXCEPT !.job = {}, !.did = "stopped"])

StopExit == EndWith("timer", "stop:exit", "tick:exit")

TickExit == EndWith("timer", "tick:exit", "idle")

NextThreads ==
    \/ HostCalls
    \/ SlowlyWith
    \/ SlowlyAppend
    \/ StartIfNeeded
    \/ StartWith
    \/ StartCancel
    \/ StartInterval
    \/ StartExit
    \/ SlowlyExit
    \/ TimerFires
    \/ TickWith
    \/ TickTest
    \/ TickProcess
    \/ StopWith
    \/ StopCancel
    \/ StopAssign
    \/ StopExit
    \/ TickExit

SpecThreads == InitThreads /\ [][NextThreads]_mover

\* no call of the host and no tick is in progress
NoCallInProgress == \A t \in Threads : mover.pc[t] = "idle"

\* C31: however the host's calls and the ticks interleave, the targets
\* submitted are the targets processed followed by the targets queued, in
\* that order; cron runs at most one interval job; and when no call is in
\* progress a non-empty queue has its job scheduled.
C31_NothingLostOneJob ==
    /\ mover.sent = mover.processed \o mover.targets
    /\ Cardinality(mover.scheduled) <= 1
    /\ (NoCallInProgress /\ mover.targets # <<>>)
           => (mover.job # {} /\ mover.job \subseteq mover.scheduled)

\* every call is over and every tick too: all the targets were submitted,
\* ticks processed some of them between the calls and some are still queued
C31_Witness ==
    /\ NoCallInProgress
    /\ mover.processed # <<>>
    /\ mover.targets # <<>>
    /\ Len(mover.sent) = MaxSubmitted

-----------------------------------------------------------------------------
(* SlowMover: the queue drains *)

\* the setting is positive
PositiveDistances == 1..MaxDistance

InitDrain ==
    /\ InitMover
    /\ mover.max_dist \in PositiveDistances

\* only the mover moves the cursor: SlowMouseMove, SlowMouseClick and Tick
NextDrain ==
    \/ SlowMouseMove
    \/ SlowMouseClick
    \/ Tick

\* cron runs the interval job every 16 ms for as long as it is scheduled
SpecDrain == InitDrain /\ [][NextDrain]_mover /\ WF_mover(Tick)

\* C32: with a positive distance setting and no one else moving the
\* cursor, once the submissions are over every target is processed (each
\* click target by one click), the queue is empty from then on and no job
\* is scheduled; and the tick that finds the queue empty stops the job.
C32_QueueDrains ==
    /\ <>[](/\ mover.targets = <<>>
            /\ ~mover.job
            /\ mover.clicks = mover.click_targets)
    /\ [][(mover.targets = <<>> /\ mover'.targets = <<>>) => ~mover'.job]_mover

\* all the targets were submitted, a click among them made at (2, 0),
\* with steps of one unit, and the tick after the last target stopped the
\* job
C32_Witness ==
    /\ mover.submitted = MaxSubmitted
    /\ mover.targets = <<>>
    /\ mover.did = "stopped"
    /\ ~mover.job
    /\ mover.clicks > 0
    /\ mover.clicked_at = <<2, 0>>
    /\ mover.max_dist = 1

====
